---- MODULE Spec2Model ----
(***************************************************************************)
(* Model of the complete-set arbitrage engine of matanrochman/poly:        *)
(*   - PolymarketExecutor (src/src/execution/polymarket_executor.py)       *)
(*   - MarketArbitrageDetector (src/src/pricing/market_arbitrage.py)       *)
(*   - OrderManager, RiskLimits, InventoryCaps, PnLTracker                 *)
(*                                                                         *)
(* Numbers.  Python floats are modelled as exact rationals <<num, den>>    *)
(* (den > 0, lowest terms).  Prices are in cents (0.45 is 45), so a        *)
(* complete set redeems for 100.  Quantities are integers.  Slippage is    *)
(* in percent, fees in basis points, as in the configuration.              *)
(***************************************************************************)
EXTENDS Integers, Sequences, FiniteSets, TLC

(***************************************************************************)
(* Bounds of the model.                                                    *)
(***************************************************************************)
\* number of fills applied in the fill-accounting specification
MaxFills == 3

\* last reading of the clock (seconds)
MaxClock == 2

\* number of execute_complete_set invocations in a run of Spec
MaxExec == 2

\* number of execute_complete_set invocations in a run of SpecLegs
MaxLegExec == 3

\* number of admitted attempts that may overlap at their awaits, in Spec
MaxInflight == 1

\* number of execute_complete_set invocations in SpecMarkets
MaxMarketExec == 3

\* number of execute_complete_set invocations in SpecLoss
MaxLossExec == 4

\* number of orders the order manager records in SpecLoss
MaxLossOrders == 5

\* number of orders recorded and of update_fill calls in SpecOrders
MaxManaged == 2

MaxUpdates == 4

\* number of execute_complete_set invocations in SpecSizes
MaxSizeExec == 2

\* number of execute_complete_set invocations in SpecPartial
MaxPartialExec == 2

\* largest realized PnL of a symbol, in absolute value, in SpecPnl
MaxPnl == 3

\* number of execute_complete_set invocations in SpecPersist
MaxPersistExec == 2

\* number of execute_complete_set invocations in SpecRace
MaxRaceExec == 2

\* number of admitted attempts that may overlap at their awaits, in SpecLegs
MaxLegInflight == 2

\* number of orders (venue calls) in a run
MaxOrders == 4

(***************************************************************************)
(* Optional values (Python None): <<>> is None, <<v>> is the value v.      *)
(***************************************************************************)
None ==
  <<>>

Some(v) ==
  <<v>>

IsNone(x) ==
  x = <<>>

Val(x) ==
  x[1]

(***************************************************************************)
(* Rational arithmetic (the float arithmetic of the source, kept exact).   *)
(***************************************************************************)
Abs(x) ==
  IF x < 0 THEN -x ELSE x

Min(a, b) ==
  IF a <= b THEN a ELSE b

RECURSIVE Gcd(_, _)
Gcd(a, b) ==
  IF b = 0 THEN a ELSE Gcd(b, a % b)

Norm(n, d) ==
  LET g == Gcd(Abs(n), Abs(d))
      s == IF d < 0 THEN -1 ELSE 1
  IN  <<(s * n) \div g, (s * d) \div g>>

RInt(n) ==
  <<n, 1>>

RAdd(a, b) ==
  Norm(a[1] * b[2] + b[1] * a[2], a[2] * b[2])

RSub(a, b) ==
  Norm(a[1] * b[2] - b[1] * a[2], a[2] * b[2])

RMul(a, b) ==
  Norm(a[1] * b[1], a[2] * b[2])

RDiv(a, b) ==
  Norm(a[1] * b[2], a[2] * b[1])

RLt(a, b) ==
  a[1] * b[2] < b[1] * a[2]

RLe(a, b) ==
  a[1] * b[2] <= b[1] * a[2]

(***************************************************************************)
(* Position: signed quantity and average entry price                       *)
(* (polymarket_executor.py, class Position).                               *)
(***************************************************************************)
Position(q, a) ==
  [quantity |-> q, avg_price |-> a]

FlatPosition ==
  Position(0, RInt(0))

(***************************************************************************)
(* PolymarketExecutor._apply_fill_to_position: returns the updated         *)
(* position and the PnL realized by the fill.                              *)
(***************************************************************************)
\* the part of the fill that closes opposite exposure: min(remaining, |quantity|)
ClosingQuantity_WholeFill(position, side, quantity) ==
  IF (side = "buy" /\ position.quantity < 0) \/ (side = "sell" /\ position.quantity > 0)
  THEN quantity
  ELSE 0

ClosingQuantity(position, side, quantity) ==
  IF side = "buy" /\ position.quantity < 0 THEN Min(quantity, -position.quantity)
  ELSE IF side = "sell" /\ position.quantity > 0 THEN Min(quantity, position.quantity)
  ELSE 0

\* a fill algorithm whose average is the last fill price whenever the fill opens
ApplyFillToPosition_LastPrice(position, side, quantity, price) ==
  LET q0 == position.quantity
      a0 == position.avg_price
      closing == ClosingQuantity(position, side, quantity)
      realized == IF side = "buy" /\ q0 < 0 THEN RMul(RSub(a0, price), RInt(closing))
                  ELSE IF side = "sell" /\ q0 > 0 THEN RMul(RSub(price, a0), RInt(closing))
                  ELSE RInt(0)
      q2 == IF side = "buy" THEN q0 + quantity ELSE q0 - quantity
  IN  [position |-> Position(q2, IF quantity - closing > 0 THEN price ELSE a0),
       realized |-> realized]

ApplyFillToPosition(position, side, quantity, price) ==
  LET q0 == position.quantity
      a0 == position.avg_price
      closing == ClosingQuantity(position, side, quantity)
      realized == IF side = "buy" /\ q0 < 0 THEN RMul(RSub(a0, price), RInt(closing))
                  ELSE IF side = "sell" /\ q0 > 0 THEN RMul(RSub(price, a0), RInt(closing))
                  ELSE RInt(0)
      q1 == IF side = "buy" THEN q0 + closing ELSE q0 - closing
      remaining == quantity - closing
      q2 == IF remaining > 0
            THEN (IF side = "buy" THEN q1 + remaining ELSE q1 - remaining)
            ELSE q1
      avg == IF remaining > 0
             THEN IF side = "buy"
                  THEN IF q1 <= 0 THEN price
                       ELSE RDiv(RAdd(RMul(RInt(q1), a0), RMul(RInt(remaining), price)),
                                 RInt(q2))
                  ELSE IF q1 >= 0 THEN price
                       ELSE RDiv(RAdd(RMul(RInt(Abs(q1)), a0), RMul(RInt(remaining), price)),
                                 RInt(Abs(q2)))
             ELSE a0
  IN  [position |-> Position(q2, avg), realized |-> realized]

(***************************************************************************)
(* Configuration of the engine under analysis.  ExecutionConfig fields     *)
(* with the values of this run: slippage in percent, times in seconds.     *)
(* RiskLimits and InventoryCaps are configured for every symbol;           *)
(* amounts are in cents.                                                   *)
(***************************************************************************)
Config ==
  [max_slippage_pct |-> 5,
   idempotency_ttl_seconds |-> 1,
   max_data_staleness_seconds |-> 1,
   max_reject_streak |-> 2]

Markets ==
  {"m1", "m2"}

Outcomes ==
  <<"yes", "no">>

\* f"{market_id}:{outcome_id}" is <<market_id, outcome_id>>; the mint symbol
\* (the bare market id) is <<market_id>>.
OutcomeSymbol(m, o) ==
  <<m, o>>

MintSymbol(m) ==
  <<m>>

Symbols ==
  {OutcomeSymbol(m, Outcomes[i]) : m \in Markets, i \in 1..Len(Outcomes)}
    \cup {MintSymbol(m) : m \in Markets}

RiskLimits ==
  [max_notional_usd |-> 150,
   max_position_sizes |-> [s \in Symbols |-> IF s = <<"m1", "no">> THEN Some(1) ELSE Some(2)],
   daily_loss_limit_usd |-> 5]

InventoryCaps ==
  [caps |-> [s \in Symbols |-> IF s = <<"m1", "yes">> THEN Some(1) ELSE Some(2)]]

(***************************************************************************)
(* Order books the detector hands to the engine (MarketBook objects): a    *)
(* quote per outcome in insertion order, the book's fee and last_update.   *)
(***************************************************************************)
Quote(o, bid, ask, size) ==
  [outcome_id |-> o, bid |-> bid, ask |-> ask, size |-> size, fee_bps |-> None]

\* crossed book: asks 0.45 + 0.45, bids 0.55 + 0.55
QuotesCheap ==
  <<Quote("yes", Some(55), Some(45), Some(2)), Quote("no", Some(55), Some(45), Some(2))>>

\* order-book events the detector applies to the live book while the engine
\* runs: (market, outcome, bid, ask, size, fee_bps), None for an absent field
BookEvents ==
  {<<"m1", "yes", Some(51), Some(49), None, None>>,
   <<"m1", "no", Some(51), Some(49), Some(2), None>>,
   <<"m1", "yes", None, None, None, Some(150)>>}

(***************************************************************************)
(* Opportunities handed to execute_complete_set.  Edges are in units of    *)
(* 1e-7, so that round(edge, 6) is a real rounding.                        *)
(***************************************************************************)
Opportunity(m, d, e, sz) ==
  [market_id |-> m, direction |-> d, edge |-> e, max_size |-> sz]

Opportunities ==
  {Opportunity("m1", "buy_set", 1000000, 2),
   Opportunity("m1", "buy_set", 1000004, 0),
   Opportunity("m1", "sell_set", 1000000, 2)}

\* two buy_set opportunities of m1 that differ in their edge, hence in their
\* idempotency key
OpportunitiesRace ==
  {Opportunity("m1", "buy_set", edge, 2) : edge \in {1000000, 2000000}}

\* one opportunity per market, for the runs over two markets
OpportunitiesAcross ==
  {Opportunity("m1", "buy_set", 1000000, 2), Opportunity("m2", "buy_set", 1000000, 2)}

\* order-book events that only refresh the book of a market
BookRefreshes ==
  {<<m, "yes", None, None, None, None>> : m \in Markets}

\* the size argument of execute_complete_set (None: use max_size)
SizeArgs ==
  {None, Some(1)}

VARIABLES
  now,            \* the clock: time.monotonic() and datetime.now()
  book,           \* market id -> MarketBook (the detector's live book)
  dry_run,        \* the dry_run flag set on the engine's configuration
  hedge_open,     \* HedgeExecutor.circuit_open as read by getattr
  halted,         \* PolymarketExecutor._halted_reason (None or Some(reason))
  reject_streak,  \* PolymarketExecutor._reject_streak
  recent,         \* PolymarketExecutor._recent_opportunities: key -> claim time
  positions,      \* PolymarketExecutor._positions: symbol -> Position
  inventory,      \* PolymarketExecutor._inventory: symbol -> quantity
  pnl,            \* PnLTracker.positions: symbol -> [realized, unrealized]
  orders,         \* OrderManager._orders in insertion order; order_id is the index
  calls,          \* venue calls made so far: <<kind, client_order_id>>
  attempts,       \* execute_complete_set invocations suspended at a venue call
  nexec,          \* number of execute_complete_set invocations so far
  report,         \* the report returned last, with the number of its call
  fpos,           \* fill accounting: the position of the symbol
  frealized,      \* fill accounting: realized PnL accumulated by PnLTracker
  fhist,          \* fill accounting: the fills applied so far
  found,          \* the last NormalizedMarketData type ingested and ingest's return
  tracker,        \* PolymarketClient._sequence_tracker: key -> last sequence
  pc,             \* where PolymarketClient.stream stands
  running,        \* PolymarketClient._running
  delay,          \* the local delay of stream
  backoff,        \* PolymarketClient.backoff (BackoffConfig)
  frame,          \* what the last frame read from the socket led to
  nfail,          \* reconnect sleeps since the last yielded message
  slept,          \* the last reconnect sleep: its base delay and its jitter
  raised,         \* the exception stream raised to its consumer
  fills,          \* OrderManager.update_fill calls so far: <<order id, quantity>>
  store,          \* SnapshotStore as the engine drives it: persist_snapshot calls
  app             \* MarketStreamApp: _sequence_tracker and the last _prepare_data

engineVars ==
  <<now, book, dry_run, hedge_open, halted, reject_streak, recent, positions,
    inventory, pnl, orders, calls, attempts, nexec, report>>

feedVars ==
  <<tracker, pc, running, delay, backoff, frame, nfail, slept, raised>>

sideVars ==
  <<fpos, frealized, fhist, found, feedVars, fills, store, app>>

vars ==
  <<engineVars, sideVars>>


(***************************************************************************)
(* MarketBook / OutcomeQuote (market_arbitrage.py).                        *)
(***************************************************************************)
\* an order-book event as far as the book reads it (NormalizedMarketData)
Event(m, o, bid, ask, size, fee) ==
  [market_id |-> m, outcome_id |-> o, bid |-> bid, ask |-> ask, size |-> size,
   fee_bps |-> fee]

\* an update in which an absent field clears the stored one
Keep_Clears(x, old) ==
  x

\* x if x is not None else old
Keep(x, old) ==
  IF IsNone(x) THEN old ELSE x

\* OutcomeQuote.update_from
QuoteUpdateFrom(q, data) ==
  [outcome_id |-> q.outcome_id,
   bid |-> Keep(data.bid, q.bid),
   ask |-> Keep(data.ask, q.ask),
   size |-> Keep(data.size, q.size),
   fee_bps |-> Keep(data.fee_bps, q.fee_bps)]

\* index of the outcome in the book's dict, 0 when absent
OutcomeIndex(market, o) ==
  IF \E i \in 1..Len(market.outcomes) : market.outcomes[i].outcome_id = o
  THEN CHOOSE i \in 1..Len(market.outcomes) : market.outcomes[i].outcome_id = o
  ELSE 0

\* MarketBook.update_from at time t (outcomes.setdefault keeps insertion order)
BookUpdateFrom(market, data, t) ==
  LET i == OutcomeIndex(market, data.outcome_id)
      qs == IF i = 0
            THEN Append(market.outcomes,
                        QuoteUpdateFrom(Quote(data.outcome_id, None, None, None), data))
            ELSE [market.outcomes EXCEPT ![i] = QuoteUpdateFrom(@, data)]
  IN  [market_id |-> market.market_id,
       outcomes |-> qs,
       fee_bps |-> Keep(data.fee_bps, market.fee_bps),
       last_update |-> t]

QuoteField(q, field) ==
  IF field = "ask" THEN q.ask ELSE q.bid

\* an iteration that starts over at every leg
NextOutcome_First(market, field, from) ==
  LET S == {i \in 1..Len(market.outcomes) :
              ~IsNone(QuoteField(market.outcomes[i], field))}
  IN  IF S = {} THEN 0 ELSE CHOOSE i \in S : \A j \in S : i <= j

\* PolymarketExecutor._iter_outcomes: the first quote after position `from`
\* that carries the field (0 when the iteration is exhausted)
NextOutcome(market, field, from) ==
  LET S == {i \in (from + 1)..Len(market.outcomes) :
              ~IsNone(QuoteField(market.outcomes[i], field))}
  IN  IF S = {} THEN 0 ELSE CHOOSE i \in S : \A j \in S : i <= j

RECURSIVE SumFrom(_, _, _)
SumFrom(market, field, i) ==
  IF i > Len(market.outcomes) THEN 0
  ELSE (IF IsNone(QuoteField(market.outcomes[i], field)) THEN 0
        ELSE Val(QuoteField(market.outcomes[i], field)))
       + SumFrom(market, field, i + 1)

\* PolymarketExecutor._sum_field (cents)
SumField(market, field) ==
  SumFrom(market, field, 1)

\* market.fee_bps or 0
FeeBps(market) ==
  IF IsNone(market.fee_bps) THEN 0 ELSE Val(market.fee_bps)

\* 1 + fee_bps / 10_000
FeeMultiplier(market) ==
  RDiv(RInt(10000 + FeeBps(market)), RInt(10000))

\* 1 + max_slippage_pct and 1 - max_slippage_pct
SlipUp_None ==
  RInt(1)

SlipUp ==
  RDiv(RInt(100 + Config.max_slippage_pct), RInt(100))

SlipDown ==
  RDiv(RInt(100 - Config.max_slippage_pct), RInt(100))

(***************************************************************************)
(* MarketArbitrageDetector (market_arbitrage.py).  Prices and sums are in  *)
(* cents, so the complete set is worth 100.                                *)
(***************************************************************************)
\* MarketArbitrageDetector.__init__: min_edge_bps
MinEdgeBps == 10

\* NormalizedMarketData as ingest reads it
MarketData(type, m, o, bid, ask, size, fee) ==
  [type |-> type, market_id |-> m, outcome_id |-> o, bid |-> bid, ask |-> ask,
   size |-> size, fee_bps |-> fee]

\* the messages fed to the detector: sparse order-book updates of the prices,
\* of the size or of the fee of an outcome, and a message that is no order book
DetEvents ==
  {MarketData("order_book", "m1", o, bid, ask, None, None) :
     o \in {"yes", "no"}, bid \in {None, Some(55), Some(60)},
     ask \in {None, Some(45), Some(55)}}
  \cup {MarketData("order_book", "m1", o, None, None, size, None) :
          o \in {"yes", "no"}, size \in {Some(0), Some(10), Some(12)}}
  \cup {MarketData("order_book_snapshot", "m1", "yes", None, None, None, Some(100)),
        MarketData("trade", "m1", "yes", Some(60), Some(45), Some(10), None)}

\* CompleteSetOpportunity as returned by the detector
CompleteSetOpportunity(m, d, edge, notional, max_size) ==
  [market_id |-> m, direction |-> d, edge |-> edge, notional |-> notional,
   max_size |-> max_size]

\* the loop of _detect_complete_set_arb: sum of field * mult over the quotes
\* that carry the field
RECURSIVE AdjustedSumFrom(_, _, _, _)
AdjustedSumFrom(market, field, mult, i) ==
  IF i > Len(market.outcomes) THEN RInt(0)
  ELSE RAdd(IF IsNone(QuoteField(market.outcomes[i], field)) THEN RInt(0)
            ELSE RMul(RInt(Val(QuoteField(market.outcomes[i], field))), mult),
            AdjustedSumFrom(market, field, mult, i + 1))

\* ask_sum: sum of ask * fee_multiplier
AskSum(market) ==
  AdjustedSumFrom(market, "ask", FeeMultiplier(market), 1)

\* bid_sum: sum of bid * (2 - fee_multiplier)
BidSum(market) ==
  AdjustedSumFrom(market, "bid", RSub(RInt(2), FeeMultiplier(market)), 1)

\* sizes: the sizes the quotes carry
Sizes(market) ==
  {Val(market.outcomes[i].size) :
     i \in {j \in 1..Len(market.outcomes) : ~IsNone(market.outcomes[j].size)}}

\* max_size = min(sizes) if sizes else 0.0
MaxSize(market) ==
  IF Sizes(market) = {} THEN 0
  ELSE CHOOSE x \in Sizes(market) : \A y \in Sizes(market) : x <= y

\* _edge_meets_threshold: edge >= min_edge_bps / 10_000
EdgeMeetsThreshold(edge) ==
  RLe(RDiv(RInt(MinEdgeBps), RInt(100)), edge)

\* a detector that returns the qualifying side with the smallest edge
BestOpportunity_Smallest(opportunities) ==
  IF opportunities = <<>> THEN None
  ELSE LET least == CHOOSE i \in 1..Len(opportunities) :
                      /\ \A j \in 1..Len(opportunities) :
                           RLe(opportunities[i].edge, opportunities[j].edge)
                      /\ \A j \in 1..(i - 1) :
                           RLt(opportunities[i].edge, opportunities[j].edge)
       IN  Some(opportunities[least])

\* a detector that returns the first qualifying side
BestOpportunity_First(opportunities) ==
  IF opportunities = <<>> THEN None ELSE Some(opportunities[1])

\* _best_opportunity: max(opportunities, key=edge), the first of the largest
BestOpportunity(opportunities) ==
  IF opportunities = <<>> THEN None
  ELSE LET best == CHOOSE i \in 1..Len(opportunities) :
                     /\ \A j \in 1..Len(opportunities) :
                          RLe(opportunities[j].edge, opportunities[i].edge)
                     /\ \A j \in 1..(i - 1) :
                          RLt(opportunities[j].edge, opportunities[i].edge)
       IN  Some(opportunities[best])

\* _detect_complete_set_arb
DetectCompleteSetArb(market) ==
  LET buy_edge == RSub(RInt(100), AskSum(market))
      sell_edge == RSub(BidSum(market), RInt(100))
      buys == IF EdgeMeetsThreshold(buy_edge)
              THEN <<CompleteSetOpportunity(market.market_id, "buy_set", buy_edge,
                                            AskSum(market), MaxSize(market))>>
              ELSE <<>>
      sells == IF EdgeMeetsThreshold(sell_edge)
               THEN <<CompleteSetOpportunity(market.market_id, "sell_set", sell_edge,
                                             BidSum(market), MaxSize(market))>>
               ELSE <<>>
  IN  IF Len(market.outcomes) < 2 THEN None
      ELSE IF MaxSize(market) <= 0 THEN None
      ELSE BestOpportunity(buys \o sells)

(***************************************************************************)
(* PolymarketClient (polymarket_client.py): normalization of the frames    *)
(* read from the socket, sequence-gap detection and REST fallback.         *)
(***************************************************************************)
\* largest sequence number a frame carries
MaxSeq == 4

\* BackoffConfig defaults, in quarter seconds
DefaultBackoff ==
  [initial |-> 4, maximum |-> 240, factor |-> 2, jitter |-> 1]

\* key = f"{event_type}:{market_id}:{outcome_id or '*'}"
FeedKey(event_type, market_id, outcome_id) ==
  <<event_type, market_id, IF IsNone(outcome_id) THEN "*" ELSE Val(outcome_id)>>

FeedKeys ==
  {FeedKey(c, "m1", o) : c \in {"orderbook", "trade"}, o \in {None, Some("yes")}}

\* a decoded frame: message type, market ("" when missing), outcome, the raw
\* "sequence" field
Message(type, market, outcome, sequence) ==
  [type |-> type, market |-> market, outcome |-> outcome, sequence |-> sequence]

\* the frames of three keys (order book of an outcome, order book without
\* outcome, trades of an outcome) with every sequence number, a metadata
\* frame, a frame of unknown type and a frame without market
Messages ==
  {Message(k[1], "m1", k[2], q) :
     k \in {<<"orderbook", Some("yes")>>, <<"orderbook", None>>, <<"trade", Some("yes")>>},
     q \in {None} \cup {Some(n) : n \in 0..MaxSeq}}
  \cup {Message("markets", "m1", None, Some(1)),
        Message("heartbeat", "m1", None, None),
        Message("orderbook", "", Some("yes"), Some(1))}

\* the answer of the REST endpoint to a fallback request
RestAnswers ==
  {"data", "none"}

\* _safe_int(data.get("sequence") or data.get("seq")): a sequence of 0 is
\* falsy and reads as absent
ReadSequence(message) ==
  IF message.sequence = Some(0) THEN None ELSE message.sequence

\* NormalizedMarketData as stream yields it
Normalized(type, market_id, outcome_id, sequence) ==
  [type |-> type, market_id |-> market_id, outcome_id |-> outcome_id,
   sequence |-> sequence]

\* the sequence _detect_sequence_gap stores for the key
StoredSequence_KeptOnGap(previous, sequence) ==
  IF ~IsNone(previous) /\ sequence # Val(previous) + 1 THEN Val(previous) ELSE sequence

StoredSequence(previous, sequence) ==
  sequence

\* _detect_sequence_gap: the tracker it leaves and the gap it reports (None
\* when it returns False)
DetectSequenceGap(event_type, market_id, outcome_id, sequence) ==
  LET key == FeedKey(event_type, market_id, outcome_id)
      previous == tracker[key]
  IN  IF IsNone(sequence)
      THEN [tracker |-> tracker, gap |-> None]
      ELSE [tracker |-> [tracker EXCEPT ![key] =
                           Some(StoredSequence(previous, Val(sequence)))],
            gap |-> IF IsNone(previous) \/ Val(sequence) = Val(previous) + 1
                    THEN None
                    ELSE Some(Val(sequence) - Val(previous) - 1)]

\* what is returned when the fallback of a detected gap brings no data
OnFallbackFailure(live) ==
  Some(live)

\* _normalize_order_book / _normalize_trade: tracker, gap detections, REST
\* fallback invocations and the value returned
NormalizeQuoted(event_type, live_type, message, rest) ==
  LET sequence == ReadSequence(message)
      d == DetectSequenceGap(event_type, message.market, message.outcome, sequence)
      live == Normalized(live_type, message.market, message.outcome, sequence)
      snapshot == Normalized(IF live_type = "order_book" THEN "order_book_snapshot"
                             ELSE "trade_snapshot",
                             message.market, message.outcome, None)
  IN  IF message.market = ""
      THEN [tracker |-> tracker, gaps |-> <<>>, rest |-> 0, out |-> None]
      ELSE IF IsNone(d.gap)
      THEN [tracker |-> d.tracker, gaps |-> <<>>, rest |-> 0, out |-> Some(live)]
      ELSE [tracker |-> d.tracker, gaps |-> <<Val(d.gap)>>, rest |-> 1,
            out |-> IF rest = "data" THEN Some(snapshot) ELSE OnFallbackFailure(live)]

\* _normalize_metadata
NormalizeMetadata(message) ==
  [tracker |-> tracker, gaps |-> <<>>, rest |-> 0,
   out |-> IF message.market = "" THEN None
           ELSE Some(Normalized("metadata", message.market, None,
                                ReadSequence(message)))]

\* _normalize_message
NormalizeMessage(message, rest) ==
  IF message.type = "orderbook"
  THEN NormalizeQuoted("orderbook", "order_book", message, rest)
  ELSE IF message.type \in {"trade", "trades"}
  THEN NormalizeQuoted("trade", "trade", message, rest)
  ELSE IF message.type \in {"market", "markets", "metadata"}
  THEN NormalizeMetadata(message)
  ELSE [tracker |-> tracker, gaps |-> <<>>, rest |-> 0, out |-> None]

(***************************************************************************)
(* MarketStreamApp (main.py): the consumer of PolymarketClient.stream with *)
(* its own sequence tracker and REST recovery.                             *)
(***************************************************************************)
\* key = f"{data.type}:{data.market_id}:{data.outcome_id or '*'}"
AppKey(data) ==
  <<data.type, data.market_id,
    IF IsNone(data.outcome_id) THEN "*" ELSE Val(data.outcome_id)>>

AppKeys ==
  {<<t, "m1", o>> : t \in {"order_book", "trade", "metadata"}, o \in {"*", "yes"}}

\* _has_sequence_gap: the tracker it leaves and the gap it reports (None when
\* it returns False)
HasSequenceGap(data) ==
  LET key == AppKey(data)
      previous == app.tracker[key]
  IN  IF IsNone(data.sequence)
      THEN [tracker |-> app.tracker, gap |-> None]
      ELSE [tracker |-> [app.tracker EXCEPT ![key] = data.sequence],
            gap |-> IF IsNone(previous) \/ Val(data.sequence) = Val(previous) + 1
                    THEN None
                    ELSE Some(Val(data.sequence) - Val(previous) - 1)]

\* _recover_snapshot: the REST fetches it makes and the snapshot it returns
RecoverSnapshot(data, rest) ==
  IF data.type \in {"order_book", "order_book_snapshot"}
  THEN [rest |-> 1,
        out |-> IF rest = "data"
                THEN Some(Normalized("order_book_snapshot", data.market_id,
                                     data.outcome_id, None))
                ELSE None]
  ELSE IF data.type \in {"trade", "trade_snapshot"}
  THEN [rest |-> 1,
        out |-> IF rest = "data"
                THEN Some(Normalized("trade_snapshot", data.market_id,
                                     data.outcome_id, None))
                ELSE None]
  ELSE [rest |-> 0, out |-> None]

\* _prepare_data on an event that is not stale: the tracker, the gaps
\* detected, the REST recoveries started and the event handed on
PrepareData(data, rest) ==
  LET d == HasSequenceGap(data)
      recovered == RecoverSnapshot(data, rest)
  IN  IF IsNone(d.gap)
      THEN [tracker |-> d.tracker, gaps |-> <<>>, rest |-> 0, out |-> Some(data)]
      ELSE [tracker |-> d.tracker, gaps |-> <<Val(d.gap)>>, rest |-> recovered.rest,
            out |-> recovered.out]

(***************************************************************************)
(* Admission stages of PolymarketExecutor.execute_complete_set.            *)
(***************************************************************************)
\* a circuit that only the reject streak keeps open
CircuitOpen_OnlyStreak ==
  halted = Some("reject_streak")

CircuitOpen ==
  ~IsNone(halted)

\* a book counted as stale from the limit on
IsMarketStale_AtLimit(market) ==
  now - market.last_update >= Config.max_data_staleness_seconds

\* _is_market_stale
IsMarketStale(market) ==
  now - market.last_update > Config.max_data_staleness_seconds

\* round(edge, 6), the edge being in units of 1e-7
Round6(e) ==
  ((e + 5) \div 10) * 10

OpportunityKey(opp) ==
  <<opp.market_id, opp.direction, Round6(opp.edge)>>

Keys ==
  {OpportunityKey(opp) :
     opp \in Opportunities \cup OpportunitiesAcross \cup OpportunitiesRace}

\* _claim_idempotency: "recent and now - recent < ttl" (0.0 is falsy in Python)
ClaimRefused(key) ==
  /\ ~IsNone(recent[key])
  /\ Val(recent[key]) # 0
  /\ now - Val(recent[key]) < Config.idempotency_ttl_seconds

EdgeSurvivesCosts(opp, market) ==
  IF opp.direction = "buy_set"
  THEN /\ SumField(market, "ask") > 0
       /\ RLt(RMul(RMul(RInt(SumField(market, "ask")), SlipUp), FeeMultiplier(market)),
              RInt(100))
  ELSE /\ SumField(market, "bid") > 0
       /\ RLt(RInt(100),
              RDiv(RMul(RInt(SumField(market, "bid")), SlipDown), FeeMultiplier(market)))

\* min(size or opportunity.max_size, opportunity.max_size)
TradeSize(opp, size) ==
  Min(IF IsNone(size) \/ Val(size) = 0 THEN opp.max_size ELSE Val(size), opp.max_size)

\* _estimate_notional (cents)
EstimateNotional(opp, market, size) ==
  LET unit == IF opp.direction = "buy_set"
              THEN RMul(RInt(SumField(market, "ask")), SlipUp)
              ELSE RMul(RInt(SumField(market, "bid")), SlipDown)
  IN  RMul(IF RLt(unit, RInt(0)) THEN RInt(0) ELSE unit, RInt(size))

\* InventoryCaps.within_caps
WithinCaps(symbol, proposed) ==
  /\ ~IsNone(InventoryCaps.caps[symbol])
  /\ Abs(proposed) <= Val(InventoryCaps.caps[symbol])

\* RiskLimits.validate_position
ValidatePosition_UsesCap(symbol, proposed) ==
  WithinCaps(symbol, proposed)

ValidatePosition(symbol, proposed) ==
  /\ ~IsNone(RiskLimits.max_position_sizes[symbol])
  /\ Abs(proposed) <= Val(RiskLimits.max_position_sizes[symbol])

\* _projected_inventory: the projected symbols and their quantities
ProjectedSymbols(opp, market) ==
  LET field == IF opp.direction = "buy_set" THEN "ask" ELSE "bid"
  IN  {OutcomeSymbol(market.market_id, market.outcomes[i].outcome_id) :
         i \in {j \in 1..Len(market.outcomes) :
                  ~IsNone(QuoteField(market.outcomes[j], field))}}
      \cup (IF opp.direction = "sell_set" THEN {MintSymbol(market.market_id)} ELSE {})

ProjectedInventory(opp, market, trade_size, symbol) ==
  IF symbol = MintSymbol(market.market_id)
  THEN positions[symbol].quantity + trade_size
  ELSE positions[symbol].quantity
       + (IF opp.direction = "buy_set" THEN trade_size ELSE -trade_size)

PositionsWithinLimits(opp, market, trade_size) ==
  \A symbol \in ProjectedSymbols(opp, market) :
    /\ WithinCaps(symbol, ProjectedInventory(opp, market, trade_size, symbol))
    /\ ValidatePosition(symbol, ProjectedInventory(opp, market, trade_size, symbol))

RECURSIVE LossOver(_)
LossOver(S) ==
  IF S = {} THEN RInt(0)
  ELSE LET s == CHOOSE x \in S : TRUE
       IN  RAdd(IF RLt(pnl[s].realized, RInt(0))
                THEN RSub(RInt(0), pnl[s].realized) ELSE RInt(0),
                LossOver(S \ {s}))

\* _current_realized_loss
CurrentRealizedLoss ==
  LossOver(Symbols)

\* RiskLimits.validate_loss
ValidateLoss(loss) ==
  RLe(loss, RInt(RiskLimits.daily_loss_limit_usd))

\* a loss over the limit that blocks the call without tripping the circuit
PassesRiskLimits_NoTrip(opp, market, trade_size, notional) ==
  IF RLt(RInt(RiskLimits.max_notional_usd), notional) THEN "blocked"
  ELSE IF ~PositionsWithinLimits(opp, market, trade_size) THEN "blocked"
  ELSE IF ~ValidateLoss(CurrentRealizedLoss) THEN "blocked"
  ELSE "ok"

\* _passes_risk_limits: "ok", "blocked", or "loss" (blocked, and the circuit trips)
PassesRiskLimits(opp, market, trade_size, notional) ==
  IF RLt(RInt(RiskLimits.max_notional_usd), notional) THEN "blocked"
  ELSE IF ~PositionsWithinLimits(opp, market, trade_size) THEN "blocked"
  ELSE IF ~ValidateLoss(CurrentRealizedLoss) THEN "loss"
  ELSE "ok"

\* The stage at which execute_complete_set(opp, market, size) returns, or
\* "admitted" when the legs are submitted.
Stage(opp, market, size) ==
  IF CircuitOpen THEN "circuit"
  ELSE IF IsMarketStale(market) THEN "stale_data"
  ELSE IF hedge_open THEN "hedge_circuit"
  ELSE IF ClaimRefused(OpportunityKey(opp)) THEN "duplicate"
  ELSE IF ~EdgeSurvivesCosts(opp, market) THEN "edge_erased"
  ELSE IF TradeSize(opp, size) <= 0 THEN "no_size_available"
  ELSE LET r == PassesRiskLimits(opp, market, TradeSize(opp, size),
                                 EstimateNotional(opp, market, TradeSize(opp, size)))
       IN  IF r = "ok" THEN "admitted"
           ELSE IF r = "loss" THEN "daily_loss_limit" ELSE "risk_blocked"


(***************************************************************************)
(* OrderManager (order_manager.py) and the leg submission of the engine.   *)
(***************************************************************************)
\* an order state that does not carry the id generated for it
Order_SharedId(id, symbol, side, quantity, price) ==
  [order_id |-> 1, symbol |-> symbol, side |-> side, quantity |-> quantity,
   price |-> price, status |-> "new", filled_quantity |-> 0]

\* OrderState(order_id, OrderRequest(symbol, side, "market", quantity, price))
Order(id, symbol, side, quantity, price) ==
  [order_id |-> id, symbol |-> symbol, side |-> side, quantity |-> quantity,
   price |-> price, status |-> "new", filled_quantity |-> 0]

\* an update that adds the fill and leaves the status as it was
UpdateFill_KeepsStatus(o, fill) ==
  [order_id |-> o.order_id, symbol |-> o.symbol, side |-> o.side,
   quantity |-> o.quantity, price |-> o.price,
   status |-> o.status,
   filled_quantity |-> o.filled_quantity + fill]

\* an update that keeps only the last fill
UpdateFill_LastFill(o, fill) ==
  [order_id |-> o.order_id, symbol |-> o.symbol, side |-> o.side,
   quantity |-> o.quantity, price |-> o.price,
   status |-> IF fill >= o.quantity THEN "filled" ELSE "partial_fill",
   filled_quantity |-> fill]

\* OrderManager.update_fill
UpdateFill(o, fill) ==
  [order_id |-> o.order_id, symbol |-> o.symbol, side |-> o.side,
   quantity |-> o.quantity, price |-> o.price,
   status |-> IF o.filled_quantity + fill >= o.quantity THEN "filled" ELSE "partial_fill",
   filled_quantity |-> o.filled_quantity + fill]

\* the outcomes of a venue call: it times out, raises, or returns a response
\* read through _extract_status, _extract_filled_quantity, _extract_fill_price
Timeout ==
  [kind |-> "timeout", rejected |-> FALSE, filled |-> 0, price |-> None]

Raised ==
  [kind |-> "raised", rejected |-> FALSE, filled |-> 0, price |-> None]

Response(rejected, filled, price) ==
  [kind |-> "response", rejected |-> rejected, filled |-> filled, price |-> price]

\* fill prices a response may carry (None: the response carries no price)
ResponsePrices ==
  {None, Some(RInt(60))}

Responses(quantity) ==
  {Timeout, Raised, Response(TRUE, 0, None), Response(TRUE, quantity, None),
   Response(FALSE, 0, None)}
    \cup {Response(FALSE, 1, None)}
    \cup {Response(FALSE, quantity, p) : p \in ResponsePrices}

\* _extract_fill_price: the response's price, else the request's, else 1.0
ExtractFillPrice(resp, o) ==
  IF ~IsNone(resp.price) THEN Val(resp.price)
  ELSE IF ~IsNone(o.price) THEN Val(o.price)
  ELSE RInt(100)

\* _mark_price: mid of the outcome's quote, or the side that exists
MarkPrice(symbol, market) ==
  IF Len(symbol) # 2 THEN None
  ELSE IF market.market_id # symbol[1] THEN None
  ELSE LET i == OutcomeIndex(market, symbol[2])
       IN  IF i = 0 THEN None
           ELSE LET q == market.outcomes[i]
                IN  IF IsNone(q.bid) /\ IsNone(q.ask) THEN None
                    ELSE IF ~IsNone(q.bid) /\ ~IsNone(q.ask)
                         THEN Some(RDiv(RInt(Val(q.bid) + Val(q.ask)), RInt(2)))
                         ELSE IF ~IsNone(q.bid) THEN Some(RInt(Val(q.bid)))
                              ELSE Some(RInt(Val(q.ask)))

\* _mark_unrealized: the unrealized PnL written to PnLTracker
Unrealized(symbol, position, market) ==
  IF IsNone(MarkPrice(symbol, market)) THEN RInt(0)
  ELSE RMul(RSub(Val(MarkPrice(symbol, market)), position.avg_price),
            RInt(position.quantity))

\* an add_realized that stores the value passed last
AddRealized_Overwrites(tracker_positions, symbol, value) ==
  [tracker_positions EXCEPT ![symbol].realized = value]

\* PnLTracker.add_realized (an entry setdefault would create holds 0.0, 0.0)
AddRealized(tracker_positions, symbol, value) ==
  [tracker_positions EXCEPT ![symbol].realized = RAdd(@, value)]

\* PnLTracker.update_unrealized
UpdateUnrealized(tracker_positions, symbol, value) ==
  [tracker_positions EXCEPT ![symbol].unrealized = value]

\* sum(position.total for position in self.positions.values()) over S
RECURSIVE TotalOver(_, _)
TotalOver(tracker_positions, S) ==
  IF S = {} THEN RInt(0)
  ELSE LET s == CHOOSE x \in S : TRUE
       IN  RAdd(RAdd(tracker_positions[s].realized, tracker_positions[s].unrealized),
                TotalOver(tracker_positions, S \ {s}))

\* PnLTracker.total_pnl
TotalPnl(tracker_positions) ==
  TotalOver(tracker_positions, Symbols)

\* a _persist_snapshot that makes no call while the store is down
PersistSnapshot_Skipped(payload) ==
  [store EXCEPT !.calls = IF store.down THEN @ ELSE @ + 1,
                !.passed = IF store.down THEN @ ELSE Some(payload),
                !.stored = IF store.down THEN @ ELSE Some(payload)]

\* _persist_snapshot: one persist_snapshot call with the payload; a store that
\* is down raises, which is logged and ignored
PersistSnapshot(payload) ==
  [store EXCEPT !.calls = @ + 1,
                !.passed = Some(payload),
                !.stored = IF store.down THEN @ ELSE Some(payload)]

\* the end of _record_fill: the updated state is handed to _persist_snapshot
Persisted(updated) ==
  [positions |-> updated.positions,
   inventory |-> updated.inventory,
   pnl |-> updated.pnl,
   store |-> PersistSnapshot(updated)]

\* a _record_fill that adds the filled quantity to the inventory entry whatever
\* the side of the order
RecordFill_InventoryAdds(o, filled, resp, market) ==
  LET r == ApplyFillToPosition(positions[o.symbol], o.side, filled,
                               ExtractFillPrice(resp, o))
  IN  Persisted(
        [positions |-> [positions EXCEPT ![o.symbol] = r.position],
         inventory |-> [inventory EXCEPT ![o.symbol] = @ + filled],
         pnl |-> UpdateUnrealized(AddRealized(pnl, o.symbol, r.realized), o.symbol,
                                  Unrealized(o.symbol, r.position, market))])

\* _record_fill: positions, inventory and PnL after the fill of order o, and
\* the snapshot persisted from them
RecordFill(o, filled, resp, market) ==
  LET r == ApplyFillToPosition(positions[o.symbol], o.side, filled,
                               ExtractFillPrice(resp, o))
  IN  Persisted(
        [positions |-> [positions EXCEPT ![o.symbol] = r.position],
         inventory |-> [inventory EXCEPT ![o.symbol] = r.position.quantity],
         pnl |-> UpdateUnrealized(AddRealized(pnl, o.symbol, r.realized), o.symbol,
                                  Unrealized(o.symbol, r.position, market))])

\* _handle_reject with the circuit reason assigned on both branches
HandleReject_Clears ==
  [reject_streak |-> reject_streak + 1,
   halted |-> IF reject_streak + 1 >= Config.max_reject_streak
              THEN Some("reject_streak") ELSE None]

\* _handle_reject
HandleReject ==
  [reject_streak |-> reject_streak + 1,
   halted |-> IF reject_streak + 1 >= Config.max_reject_streak
              THEN Some("reject_streak") ELSE halted]

\* _submit_order, filled > 0: self._reject_streak = 0
StreakAfterFill_Kept ==
  reject_streak

StreakAfterFill ==
  0

\* _submit_order after the venue call of order id ended with resp: the engine
\* state it leaves
AfterResponse(id, resp, market) ==
  LET o == orders[id]
      unchanged == [orders |-> orders, reject_streak |-> reject_streak, halted |-> halted,
                    positions |-> positions, inventory |-> inventory, pnl |-> pnl,
                    store |-> store]
  IN  IF resp.kind = "timeout"
      THEN [unchanged EXCEPT !.orders = [orders EXCEPT ![id].status = "timeout"],
                             !.reject_streak = HandleReject.reject_streak,
                             !.halted = HandleReject.halted]
      ELSE IF resp.rejected
      THEN [unchanged EXCEPT !.orders = [orders EXCEPT ![id].status = "rejected"],
                             !.reject_streak = HandleReject.reject_streak,
                             !.halted = HandleReject.halted]
      ELSE IF resp.filled > 0
      THEN LET f == RecordFill(UpdateFill(o, resp.filled), resp.filled, resp, market)
           IN  [orders |-> [orders EXCEPT ![id] = UpdateFill(o, resp.filled)],
                reject_streak |-> StreakAfterFill,
                halted |-> halted,
                positions |-> f.positions,
                inventory |-> f.inventory,
                pnl |-> f.pnl,
                store |-> f.store]
      ELSE unchanged

\* sell legs sized by the sets held on the market-id symbol
LegOrder_Minted(id, opp, market, i, trade_size) ==
  IF opp.direction = "buy_set"
  THEN Order(id, OutcomeSymbol(opp.market_id, market.outcomes[i].outcome_id), "buy",
             trade_size, Some(RMul(RInt(Val(market.outcomes[i].ask)), SlipUp)))
  ELSE Order(id, OutcomeSymbol(opp.market_id, market.outcomes[i].outcome_id), "sell",
             Min(trade_size, positions'[MintSymbol(opp.market_id)].quantity),
             Some(RMul(RInt(Val(market.outcomes[i].bid)), SlipDown)))

\* the order of the leg on outcome i of the book (_buy_complete_set / _sell_complete_set)
LegOrder(id, opp, market, i, trade_size) ==
  IF opp.direction = "buy_set"
  THEN Order(id, OutcomeSymbol(opp.market_id, market.outcomes[i].outcome_id), "buy",
             trade_size, Some(RMul(RInt(Val(market.outcomes[i].ask)), SlipUp)))
  ELSE Order(id, OutcomeSymbol(opp.market_id, market.outcomes[i].outcome_id), "sell",
             trade_size, Some(RMul(RInt(Val(market.outcomes[i].bid)), SlipDown)))

\* the mint leg of _sell_complete_set
MintOrder(id, opp, trade_size) ==
  Order(id, MintSymbol(opp.market_id), "buy", trade_size, None)

LegField(opp) ==
  IF opp.direction = "buy_set" THEN "ask" ELSE "bid"

\* a report that carries no reason
Report_NoReason(call, skipped, reason, ords) ==
  [call |-> call, skipped |-> skipped, reason |-> None, orders |-> ords]

\* ExecutionReport(orders, skipped, reason) as returned by invocation number
\* call; orders holds the order ids
Report(call, skipped, reason, ords) ==
  [call |-> call, skipped |-> skipped, reason |-> reason, orders |-> ords]

\* the legs an admitted attempt on this book submits (the mint included)
LegCount(opp, market) ==
  Cardinality({i \in 1..Len(market.outcomes) :
                 ~IsNone(QuoteField(market.outcomes[i], LegField(opp)))})
    + (IF opp.direction = "sell_set" THEN 1 ELSE 0)

\* the legs the attempts in flight have still to submit
RECURSIVE LegsToCome(_)
LegsToCome(S) ==
  IF S = {} THEN 0
  ELSE LET a == CHOOSE x \in S : TRUE
       IN  Cardinality({i \in (a.leg + 1)..Len(book[a.opp.market_id].outcomes) :
                          ~IsNone(QuoteField(book[a.opp.market_id].outcomes[i],
                                             LegField(a.opp)))})
           + LegsToCome(S \ {a})


(***************************************************************************)
(* Initial state: a freshly constructed engine, the detector holding the   *)
(* crossed book of m1.                                                     *)
(***************************************************************************)
InitIdle ==
  /\ now = 0
  /\ hedge_open = FALSE
  /\ halted = None
  /\ reject_streak = 0
  /\ recent = [k \in Keys |-> None]
  /\ positions = [s \in Symbols |-> FlatPosition]
  /\ inventory = [s \in Symbols |-> 0]
  /\ pnl = [s \in Symbols |-> [realized |-> RInt(0), unrealized |-> RInt(0)]]
  /\ orders = <<>>
  /\ calls = <<>>
  /\ attempts = {}
  /\ nexec = 0
  /\ report = None

InitBook(m) ==
  [market_id |-> m, outcomes |-> QuotesCheap, fee_bps |-> None, last_update |-> 0]

InitEngine ==
  /\ book = [m \in Markets |-> InitBook(m)]
  /\ InitIdle

\* fill accounting, detector return and OrderManager calls: nothing yet
InitAcc ==
  /\ fpos = FlatPosition
  /\ frealized = RInt(0)
  /\ fhist = <<>>
  /\ found = None
  /\ fills = <<>>
  /\ store = [down |-> FALSE, calls |-> 0, passed |-> None, stored |-> None]
  /\ app = [tracker |-> [k \in AppKeys |-> None], gaps |-> <<>>, rest |-> 0,
            out |-> None]

\* PolymarketClient.__init__: stream not started
InitClient ==
  /\ tracker = [k \in FeedKeys |-> None]
  /\ pc = "idle"
  /\ running = FALSE
  /\ delay = 0
  /\ frame = None
  /\ nfail = 0
  /\ slept = None
  /\ raised = None

InitSide ==
  /\ InitAcc
  /\ backoff = DefaultBackoff
  /\ InitClient

Init ==
  /\ InitEngine
  /\ dry_run = FALSE
  /\ InitSide

\* the point of execute_complete_set where the legs are submitted: after every
\* admission stage has passed
Submits_BeforeRiskGate(stage) ==
  stage \in {"admitted", "risk_blocked"}

Submits(stage) ==
  stage = "admitted"

\* bound of the model: an attempt is admitted only while fewer than k are in flight
Room(opp, size, k) ==
  Stage(opp, book[opp.market_id], size) = "admitted" => Cardinality(attempts) < k

\* bound of the model: an attempt is admitted only while its orders keep the
\* order table within n orders
OrderRoom(opp, size, n) ==
  Submits(Stage(opp, book[opp.market_id], size)) =>
    Len(orders) + LegsToCome(attempts) + LegCount(opp, book[opp.market_id]) <= n

(***************************************************************************)
(* execute_complete_set(opp, book[opp.market_id], size): the admission     *)
(* pipeline and, when admitted, the submission of the first leg, up to     *)
(* the first await.                                                        *)
(***************************************************************************)
Execute(opp, size) ==
  LET market == book[opp.market_id]
      stage == Stage(opp, market, size)
      call == nexec + 1
      trade_size == TradeSize(opp, size)
      id == Len(orders) + 1
      first == NextOutcome(market, "ask", 0)
      claimed == stage \notin {"circuit", "stale_data", "hedge_circuit", "duplicate"}
  IN  /\ nexec' = call
      /\ halted' = IF stage \in {"stale_data", "hedge_circuit", "daily_loss_limit"}
                   THEN Some(stage) ELSE halted
      /\ recent' = IF claimed THEN [recent EXCEPT ![OpportunityKey(opp)] = Some(now)]
                   ELSE recent
      /\ report' = IF stage = "admitted"
                   THEN IF opp.direction = "buy_set" /\ first = 0
                        THEN Some(Report(call, FALSE, None, <<>>))
                        ELSE report
                   ELSE Some(Report(call, TRUE,
                                    IF stage = "circuit" THEN halted
                                    ELSE IF stage = "daily_loss_limit"
                                         THEN Some("risk_blocked") ELSE Some(stage),
                                    <<>>))
      /\ IF Submits(stage) /\ opp.direction = "sell_set"
         THEN /\ orders' = Append(orders, MintOrder(id, opp, trade_size))
              /\ calls' = Append(calls, <<"mint_complete_set", id>>)
              /\ attempts' = attempts \cup
                   {[call |-> call, opp |-> opp, trade_size |-> trade_size, leg |-> 0,
                     order |-> id, done |-> <<>>]}
         ELSE IF Submits(stage) /\ first # 0
         THEN /\ orders' = Append(orders, LegOrder(id, opp, market, first, trade_size))
              /\ calls' = Append(calls, <<"place_order", id>>)
              /\ attempts' = attempts \cup
                   {[call |-> call, opp |-> opp, trade_size |-> trade_size, leg |-> first,
                     order |-> id, done |-> <<>>]}
         ELSE UNCHANGED <<orders, calls, attempts>>
      /\ UNCHANGED <<now, book, dry_run, hedge_open, reject_streak, positions, inventory,
                     pnl, sideVars>>

\* an attempt whose earlier call stays in flight when its next leg starts
AttemptsAfter_Overlap(a, b) ==
  attempts \cup {b}

\* the attempts in flight once the call of a has returned and its next leg, b,
\* is awaited: the legs of one attempt are awaited one after the other
AttemptsAfter(a, b) ==
  (attempts \ {a}) \cup {b}

(***************************************************************************)
(* The venue call of attempt a ends with resp: the rest of _submit_order,  *)
(* then either the submission of the next leg or the return of the report. *)
(* A call that raises ends the attempt without a report.                   *)
(***************************************************************************)
Respond(a, resp) ==
  LET market == book[a.opp.market_id]
      after == AfterResponse(a.order, resp, market)
      next == NextOutcome(market, LegField(a.opp), a.leg)
      id == Len(orders) + 1
  IN  /\ a \in attempts
      /\ resp \in Responses(orders[a.order].quantity)
      /\ IF resp.kind = "raised"
         THEN /\ attempts' = attempts \ {a}
              /\ UNCHANGED <<orders, calls, reject_streak, halted, positions, inventory,
                             pnl, report, store>>
         ELSE /\ reject_streak' = after.reject_streak
              /\ store' = after.store
              /\ halted' = after.halted
              /\ positions' = after.positions
              /\ inventory' = after.inventory
              /\ pnl' = after.pnl
              /\ IF next = 0
                 THEN /\ orders' = after.orders
                      /\ calls' = calls
                      /\ attempts' = attempts \ {a}
                      /\ report' = Some(Report(a.call, FALSE, None, Append(a.done, a.order)))
                 ELSE /\ orders' = Append(after.orders,
                                          LegOrder(id, a.opp, market, next, a.trade_size))
                      /\ calls' = Append(calls, <<"place_order", id>>)
                      /\ attempts' = AttemptsAfter(a, [a EXCEPT !.leg = next, !.order = id,
                                                            !.done = Append(a.done, a.order)])
                      /\ report' = report
      /\ UNCHANGED <<now, book, dry_run, hedge_open, recent, nexec, fpos, frealized,
                     fhist, found, feedVars, fills, app>>

\* time passes
Tick ==
  /\ now < MaxClock
  /\ now' = now + 1
  /\ UNCHANGED <<book, dry_run, hedge_open, halted, reject_streak, recent, positions,
                 inventory, pnl, orders, calls, attempts, nexec, report, sideVars>>

\* MarketArbitrageDetector.ingest as the engine sees it: the book is updated
BookEvent(e) ==
  /\ book' = [book EXCEPT ![e[1]] =
                BookUpdateFrom(@, Event(e[1], e[2], e[3], e[4], e[5], e[6]), now)]
  /\ UNCHANGED <<now, dry_run, hedge_open, halted, reject_streak, recent, positions,
                 inventory, pnl, orders, calls, attempts, nexec, report, sideVars>>

\* the attached HedgeExecutor's circuit_open attribute is set or cleared
HedgeCircuit ==
  /\ hedge_open' = ~hedge_open
  /\ UNCHANGED <<now, book, dry_run, halted, reject_streak, recent, positions,
                 inventory, pnl, orders, calls, attempts, nexec, report, sideVars>>

\* the snapshot store goes down (persist_snapshot raises) or comes back
StoreFault ==
  /\ store' = [store EXCEPT !.down = ~@]
  /\ UNCHANGED <<engineVars, fpos, frealized, fhist, found, feedVars, fills, app>>

\* the venue answers the engine is run against in Spec: a timeout or a
\* complete fill at the limit price
BasicResponses(quantity) ==
  {Timeout, Response(FALSE, quantity, None)}

Next ==
  \/ \E opp \in Opportunities, size \in SizeArgs :
       nexec < MaxExec /\ Room(opp, size, MaxInflight)
         /\ OrderRoom(opp, size, MaxOrders) /\ Execute(opp, size)
  \/ \E a \in attempts : \E resp \in BasicResponses(a.trade_size) : Respond(a, resp)
  \/ Tick
  \/ \E e \in BookEvents : BookEvent(e)
  \/ HedgeCircuit

Spec ==
  Init /\ [][Next]_vars

\* the same engine with the dry_run flag set on its configuration
InitDryRun ==
  /\ InitEngine
  /\ dry_run = TRUE
  /\ InitSide

SpecDryRun ==
  InitDryRun /\ [][Next]_vars

\* the engine against every venue answer, the environment standing still
NextLegs ==
  \/ \E opp \in Opportunities, size \in SizeArgs :
       nexec < MaxLegExec /\ Room(opp, size, MaxLegInflight)
         /\ OrderRoom(opp, size, MaxOrders) /\ Execute(opp, size)
  \/ \E a \in attempts : \E resp \in Responses(a.trade_size) : Respond(a, resp)

SpecLegs ==
  Init /\ [][NextLegs]_vars

\* the engine over two markets whose books age and are refreshed
NextMarkets ==
  \/ \E opp \in OpportunitiesAcross :
       nexec < MaxMarketExec /\ Room(opp, Some(1), MaxInflight)
         /\ OrderRoom(opp, Some(1), MaxOrders) /\ Execute(opp, Some(1))
  \/ \E a \in attempts : \E resp \in BasicResponses(a.trade_size) : Respond(a, resp)
  \/ Tick
  \/ \E e \in BookRefreshes : BookEvent(e)

SpecMarkets ==
  Init /\ [][NextMarkets]_vars

\* the size arguments of the runs on sizes: none, zero, below and above max_size
SizeRequests ==
  {None, Some(0), Some(1), Some(3)}

\* the engine called with every size argument
NextSizes ==
  \/ \E opp \in Opportunities, size \in SizeRequests :
       nexec < MaxSizeExec /\ Room(opp, size, MaxInflight)
         /\ OrderRoom(opp, size, MaxOrders) /\ Execute(opp, size)
  \/ \E a \in attempts : \E resp \in BasicResponses(a.trade_size) : Respond(a, resp)

SpecSizes ==
  Init /\ [][NextSizes]_vars

\* the venue fills every leg in full, at 0.60 or at the price of the order
PricedResponses(quantity) ==
  {Response(FALSE, quantity, p) : p \in ResponsePrices}

\* complete sets bought and sold back one unit at a time
LossOpportunities ==
  {Opportunity("m1", d, 1000000, 2) : d \in {"buy_set", "sell_set"}}

\* the engine buying and selling complete sets against priced fills
NextLoss ==
  \/ \E opp \in LossOpportunities :
       nexec < MaxLossExec /\ Room(opp, Some(1), MaxInflight)
         /\ OrderRoom(opp, Some(1), MaxLossOrders) /\ Execute(opp, Some(1))
  \/ \E a \in attempts : \E resp \in PricedResponses(a.trade_size) : Respond(a, resp)
  \/ Tick

SpecLoss ==
  Init /\ [][NextLoss]_vars

\* each of the two opportunities is executed once, for one unit; the second
\* call may arrive while the first is suspended at a venue call
NextRace ==
  \/ \E opp \in OpportunitiesRace :
       /\ nexec < MaxRaceExec
       /\ IsNone(recent[OpportunityKey(opp)])
       /\ Room(opp, Some(1), MaxLegInflight)
       /\ OrderRoom(opp, Some(1), MaxOrders)
       /\ Execute(opp, Some(1))
  \/ \E a \in attempts : \E resp \in BasicResponses(a.trade_size) : Respond(a, resp)
  \/ Tick

SpecRace ==
  Init /\ [][NextRace]_vars

\* the engine, one attempt at a time, against every venue answer and a snapshot
\* store that fails now and then
NextPersist ==
  \/ \E opp \in LossOpportunities :
       nexec < MaxPersistExec /\ Room(opp, Some(1), 1)
         /\ OrderRoom(opp, Some(1), MaxOrders) /\ Execute(opp, Some(1))
  \/ \E a \in attempts : \E resp \in Responses(a.trade_size) : Respond(a, resp)
  \/ StoreFault

SpecPersist ==
  Init /\ [][NextPersist]_vars

(***************************************************************************)
(* The detector on its own: messages are ingested into an empty detector.  *)
(***************************************************************************)
\* an ingest that lets every message type through to the book
Ingest_AnyType(data) ==
  /\ book' = [book EXCEPT ![data.market_id] = BookUpdateFrom(@, data, now)]
  /\ found' = Some([type |-> data.type,
                    result |-> DetectCompleteSetArb(book'[data.market_id])])
  /\ UNCHANGED <<now, dry_run, hedge_open, halted, reject_streak, recent, positions,
                 inventory, pnl, orders, calls, attempts, nexec, report, fpos,
                 frealized, fhist, feedVars, fills, store, app>>

\* MarketArbitrageDetector.ingest
Ingest(data) ==
  /\ IF data.type \notin {"order_book", "order_book_snapshot"}
     THEN /\ book' = book
          /\ found' = Some([type |-> data.type, result |-> None])
     ELSE /\ book' = [book EXCEPT ![data.market_id] = BookUpdateFrom(@, data, now)]
          /\ found' = Some([type |-> data.type,
                            result |-> DetectCompleteSetArb(book'[data.market_id])])
  /\ UNCHANGED <<now, dry_run, hedge_open, halted, reject_streak, recent, positions,
                 inventory, pnl, orders, calls, attempts, nexec, report, fpos,
                 frealized, fhist, feedVars, fills, store, app>>

\* MarketBook(market_id) as created by setdefault
EmptyBook(m) ==
  [market_id |-> m, outcomes |-> <<>>, fee_bps |-> None, last_update |-> 0]

InitDet ==
  /\ book = [m \in Markets |-> EmptyBook(m)]
  /\ InitIdle
  /\ dry_run = FALSE
  /\ InitSide

NextDet ==
  \E data \in DetEvents : Ingest(data)

SpecDet ==
  InitDet /\ [][NextDet]_vars

\* the message types _parse_type yields besides the two order-book types
OtherTypes ==
  {"trade", "trade_snapshot", "metadata", "metadata_snapshot"}

\* the detector fed with a few order-book updates of m1 and, in between and
\* while time passes, with messages of the other types for m1 and for m2, a
\* market it holds no quote of; the other messages carry prices, a size and a
\* fee of their own
NextOther ==
  \/ \E o \in {"yes", "no"} : \E q \in {<<Some(60), Some(45)>>, <<Some(45), Some(55)>>} :
       Ingest(MarketData("order_book", "m1", o, q[1], q[2], Some(10), None))
  \/ \E type \in OtherTypes : \E m \in Markets :
       Ingest(MarketData(type, m, "yes", Some(50), Some(40), Some(7), Some(100)))
  \/ Tick

SpecOther ==
  InitDet /\ [][NextOther]_vars

\* order-book events that build the book of m1 an outcome and a side at a
\* time: yes quoted on both sides, no quoted on the bid side, then on the ask
\* side, and a third outcome that nobody quotes
PartialEvents ==
  {<<"m1", "yes", Some(60), Some(45), Some(2), None>>,
   <<"m1", "no", Some(60), None, Some(2), None>>,
   <<"m1", "no", None, Some(45), None, None>>,
   <<"m1", "maybe", None, None, Some(2), None>>}

\* the engine called on books the detector is still filling; the book moves
\* between attempts
NextPartial ==
  \/ \E e \in PartialEvents : attempts = {} /\ BookEvent(e)
  \/ \E opp \in LossOpportunities :
       nexec < MaxPartialExec /\ Room(opp, Some(1), MaxInflight)
         /\ OrderRoom(opp, Some(1), MaxOrders) /\ Execute(opp, Some(1))
  \/ \E a \in attempts : \E resp \in BasicResponses(a.trade_size) : Respond(a, resp)

SpecPartial ==
  InitDet /\ [][NextPartial]_vars

(***************************************************************************)
(* The order manager on its own: orders are recorded and fills applied to  *)
(* them in any order.                                                      *)
(***************************************************************************)
\* requested quantities and fill quantities of the run
OrderQuantities ==
  {2, 3}

UpdateQuantities ==
  {1, 2}

\* OrderManager.record_submission of a new OrderState
RecordSubmission(quantity) ==
  /\ Len(orders) < MaxManaged
  /\ orders' = Append(orders, Order(Len(orders) + 1, <<"m1", "yes">>, "buy", quantity, None))
  /\ UNCHANGED <<now, book, dry_run, hedge_open, halted, reject_streak, recent, positions,
                 inventory, pnl, calls, attempts, nexec, report, sideVars>>

\* OrderManager.update_fill(order_id, fill_quantity) on a recorded order
UpdateFillCall(id, fill_quantity) ==
  /\ Len(fills) < MaxUpdates
  /\ id \in 1..Len(orders)
  /\ orders' = [orders EXCEPT ![id] = UpdateFill(@, fill_quantity)]
  /\ fills' = Append(fills, <<id, fill_quantity>>)
  /\ UNCHANGED <<now, book, dry_run, hedge_open, halted, reject_streak, recent, positions,
                 inventory, pnl, calls, attempts, nexec, report, fpos, frealized, fhist,
                 found, feedVars, store, app>>

NextOrders ==
  \/ \E quantity \in OrderQuantities : RecordSubmission(quantity)
  \/ \E id \in 1..MaxManaged, q \in UpdateQuantities : UpdateFillCall(id, q)

SpecOrders ==
  Init /\ [][NextOrders]_vars

(***************************************************************************)
(* PnLTracker on its own: realized values are added and marks are written  *)
(* for two symbols, in any order.                                          *)
(***************************************************************************)
NextPnl ==
  \/ \E symbol \in {<<"m1", "yes">>, <<"m1", "no">>} : \E value \in {-1, 2} :
       /\ Abs(pnl[symbol].realized[1] + value) <= MaxPnl
       /\ pnl' = AddRealized(pnl, symbol, RInt(value))
       /\ UNCHANGED <<now, book, dry_run, hedge_open, halted, reject_streak, recent,
                      positions, inventory, orders, calls, attempts, nexec, report,
                      sideVars>>
  \/ \E symbol \in {<<"m1", "yes">>, <<"m1", "no">>} : \E value \in {-1, 2} :
       /\ pnl' = UpdateUnrealized(pnl, symbol, RInt(value))
       /\ UNCHANGED <<now, book, dry_run, hedge_open, halted, reject_streak, recent,
                      positions, inventory, orders, calls, attempts, nexec, report,
                      sideVars>>

SpecPnl ==
  Init /\ [][NextPnl]_vars

(***************************************************************************)
(* Fill accounting on its own: a sequence of fills on one symbol, as       *)
(* _record_fill applies them.                                              *)
(***************************************************************************)
FillQuantities ==
  {5, 10, 15}

\* fill prices, cents
FillPrices ==
  {RInt(40), RInt(60)}

\* _record_fill on the symbol: the position is replaced, the realized PnL
\* accumulated
Fill(side, quantity, price) ==
  LET r == ApplyFillToPosition(fpos, side, quantity, price)
  IN  /\ Len(fhist) < MaxFills
      /\ fpos' = r.position
      /\ frealized' = RAdd(frealized, r.realized)
      /\ fhist' = Append(fhist, [side |-> side, quantity |-> quantity, price |-> price])
      /\ UNCHANGED <<engineVars, found, feedVars, fills, store, app>>

NextFill ==
  \E side \in {"buy", "sell"}, quantity \in FillQuantities, price \in FillPrices :
    Fill(side, quantity, price)

SpecFill ==
  Init /\ [][NextFill]_vars

(***************************************************************************)
(* PolymarketClient.stream: connect, consume, back off, reconnect.         *)
(***************************************************************************)
\* reconnect sleeps explored without a message in between
MaxReconnects == 4

\* the backoff configurations explored, in quarter seconds
Backoffs ==
  {[initial |-> i, maximum |-> m, factor |-> f, jitter |-> 1] :
     i \in {1, 2}, m \in {3, 5}, f \in {2, 3}}

\* stream is called: self._running = True, delay = self.backoff.initial
StreamStart ==
  /\ pc = "idle"
  /\ pc' = "connecting"
  /\ running' = TRUE
  /\ delay' = backoff.initial
  /\ UNCHANGED <<engineVars, fpos, frealized, fhist, found, fills, store, app, tracker, backoff,
                 frame, nfail, slept, raised>>

\* websockets.connect and _send_subscriptions succeed
Connect ==
  /\ pc = "connecting"
  /\ pc' = "consuming"
  /\ UNCHANGED <<engineVars, fpos, frealized, fhist, found, fills, store, app, tracker, running,
                 delay, backoff, frame, nfail, slept, raised>>

\* delay after a message has been taken from _consume_once
DelayAfterYield_Kept ==
  delay

DelayAfterYield ==
  backoff.initial

\* what a frame that is read and normalized does to the client
FrameRead(message, rest) ==
  LET r == NormalizeMessage(message, rest)
  IN  /\ pc = "consuming"
      /\ tracker' = r.tracker
      /\ frame' = Some([message |-> message, gaps |-> r.gaps, rest |-> r.rest,
                        out |-> r.out])
      /\ delay' = IF IsNone(r.out) THEN delay ELSE DelayAfterYield
      /\ nfail' = IF IsNone(r.out) THEN nfail ELSE 0
      /\ UNCHANGED <<pc, running, backoff, slept, raised>>

\* a frame is read and normalized; a normalized message is yielded
Frame(message, rest) ==
  /\ FrameRead(message, rest)
  /\ UNCHANGED <<engineVars, fpos, frealized, fhist, found, fills, store, app>>

\* where stream goes when _consume_once ends or raises an Exception
AfterFailure_Raised ==
  [pc |-> "ended", raised |-> Some("Exception")]

AfterFailure ==
  [pc |-> "sleeping", raised |-> raised]

\* except Exception / normal end of _consume_once, then
\* sleep_for = min(delay, maximum) + random.uniform(0, jitter)
Reconnect(jit) ==
  /\ nfail < MaxReconnects
  /\ pc' = AfterFailure.pc
  /\ raised' = AfterFailure.raised
  /\ slept' = Some([base |-> Min(delay, backoff.maximum), jitter |-> jit])
  /\ nfail' = nfail + 1

\* websockets.connect or _send_subscriptions raises
ConnectFails(jit) ==
  /\ pc = "connecting"
  /\ Reconnect(jit)
  /\ UNCHANGED <<engineVars, fpos, frealized, fhist, found, fills, store, app, tracker, running,
                 delay, backoff, frame>>

\* the socket is closed by the peer, or reading it raises, or json.loads
\* raises on a malformed frame
SocketEnds(jit) ==
  /\ pc = "consuming"
  /\ Reconnect(jit)
  /\ UNCHANGED <<engineVars, fpos, frealized, fhist, found, fills, store, app, tracker, running,
                 delay, backoff, frame>>

\* normalization raises: a gap is detected and the REST answer cannot be read
\* as a snapshot (response.get on a payload that is no dict)
NormalizationFails(message, jit) ==
  LET r == NormalizeMessage(message, "none")
  IN  /\ pc = "consuming"
      /\ r.rest = 1
      /\ tracker' = r.tracker
      /\ frame' = Some([message |-> message, gaps |-> r.gaps, rest |-> r.rest,
                        out |-> None])
      /\ Reconnect(jit)
      /\ UNCHANGED <<engineVars, fpos, frealized, fhist, found, fills, store, app, running, delay,
                     backoff>>

\* asyncio.sleep(sleep_for) returns; delay = min(delay * factor, maximum)
Wake ==
  /\ pc = "sleeping"
  /\ pc' = "connecting"
  /\ delay' = Min(delay * backoff.factor, backoff.maximum)
  /\ UNCHANGED <<engineVars, fpos, frealized, fhist, found, fills, store, app, tracker, running,
                 backoff, frame, nfail, slept, raised>>

\* the asyncio task that runs stream is cancelled: inside the try the handler clears
\* _running and re-raises, during the sleep the CancelledError propagates
Cancel ==
  /\ pc \in {"connecting", "consuming", "sleeping"}
  /\ pc' = "ended"
  /\ raised' = Some("CancelledError")
  /\ running' = IF pc = "sleeping" THEN running ELSE FALSE
  /\ UNCHANGED <<engineVars, fpos, frealized, fhist, found, fills, store, app, tracker, delay,
                 backoff, frame, nfail, slept>>

\* the feed on a connection that stays up
NextFeed ==
  \/ StreamStart
  \/ Connect
  \/ \E message \in Messages : \E rest \in RestAnswers : Frame(message, rest)

SpecFeed ==
  Init /\ [][NextFeed]_vars

(***************************************************************************)
(* MarketStreamApp.run: every message the stream yields goes through       *)
(* _prepare_data and _handle_opportunity.                                  *)
(***************************************************************************)
\* the NormalizedMarketData handed to the detector; the frames carry no
\* quote, the outcome of a message without outcome is "default"
Handed(data) ==
  MarketData(data.type, data.market_id,
             IF IsNone(data.outcome_id) THEN "default" ELSE Val(data.outcome_id),
             None, None, None, None)

\* one turn of the loop of run: a frame is read by the stream; the message it
\* yields, if any, is prepared (recovery being the answer of the REST endpoint
\* to the app's own request) and handed to the detector
Run(message, rest, recovery) ==
  LET r == NormalizeMessage(message, rest)
      p == IF IsNone(r.out)
           THEN [tracker |-> app.tracker, gaps |-> <<>>, rest |-> 0, out |-> None]
           ELSE PrepareData(Val(r.out), recovery)
  IN  /\ FrameRead(message, rest)
      /\ app' = p
      /\ IF ~IsNone(p.out) /\ Val(p.out).type \in {"order_book", "order_book_snapshot"}
         THEN LET data == Handed(Val(p.out))
              IN  /\ book' = [book EXCEPT ![data.market_id] =
                                 BookUpdateFrom(@, data, now)]
                  /\ found' = Some([type |-> data.type,
                                    result |-> DetectCompleteSetArb(book'[data.market_id])])
         ELSE UNCHANGED <<book, found>>
      /\ UNCHANGED <<now, dry_run, hedge_open, halted, reject_streak, recent, positions,
                     inventory, pnl, orders, calls, attempts, nexec, report, fpos,
                     frealized, fhist, fills, store>>

\* the frames the app is run against: order-book frames of one key with every
\* sequence number and without, metadata frames with two sequence numbers, and
\* a frame that yields nothing
AppMessages ==
  {Message("orderbook", "m1", Some("yes"), q) :
     q \in {None} \cup {Some(n) : n \in 1..MaxSeq}}
  \cup {Message("markets", "m1", None, Some(n)) : n \in {1, 3}}
  \cup {Message("heartbeat", "m1", None, None)}

NextApp ==
  \/ StreamStart
  \/ Connect
  \/ \E message \in AppMessages : \E rest \in RestAnswers, recovery \in RestAnswers :
       Run(message, rest, recovery)

SpecApp ==
  InitDet /\ [][NextApp]_vars

\* the frames the stream is run against: order-book frames of one key, with
\* and without sequence, and a frame that yields nothing
StreamMessages ==
  {Message("orderbook", "m1", Some("yes"), q) : q \in {None, Some(1), Some(3)}}
  \cup {Message("heartbeat", "m1", None, None)}

InitStream ==
  /\ InitEngine
  /\ dry_run = FALSE
  /\ InitAcc
  /\ backoff \in Backoffs
  /\ InitClient

NextStream ==
  \/ StreamStart
  \/ Connect
  \/ \E message \in StreamMessages : \E rest \in RestAnswers : Frame(message, rest)
  \/ \E jit \in 0..backoff.jitter : ConnectFails(jit)
  \/ \E jit \in 0..backoff.jitter : SocketEnds(jit)
  \/ \E message \in StreamMessages : \E jit \in 0..backoff.jitter :
       NormalizationFails(message, jit)
  \/ Wake
  \/ Cancel

SpecStream ==
  InitStream /\ [][NextStream]_vars

(***************************************************************************)
(* Vocabulary of the properties.                                           *)
(***************************************************************************)
\* the invocation of execute_complete_set taken in this step returned a
\* skip report
ReturnsSkip ==
  /\ nexec' # nexec
  /\ ~IsNone(report')
  /\ report'[1].call = nexec'
  /\ report'[1].skipped

\* the reason of that skip report
SkipReason ==
  report'[1].reason

\* the admission stages before the idempotency claim let the call through
PassesCircuits(opp) ==
  /\ IsNone(halted)
  /\ now - book[opp.market_id].last_update <= Config.max_data_staleness_seconds
  /\ ~hedge_open

\* a claim of the key of opp is stored and younger than the TTL
ClaimedWithinTtl(opp) ==
  /\ ~IsNone(recent[OpportunityKey(opp)])
  /\ now - Val(recent[OpportunityKey(opp)]) < Config.idempotency_ttl_seconds

(***************************************************************************)
(* C1                                                                      *)
(***************************************************************************)
\* C1: a call of execute_complete_set that returns a report with skipped=true
\* made no place_order or mint_complete_set call, recorded no order state, and
\* left positions, inventory and PnL as they were.
C1_SkipHasNoEffect ==
  [][ReturnsSkip =>
       /\ calls' = calls
       /\ orders' = orders
       /\ positions' = positions
       /\ inventory' = inventory
       /\ pnl' = pnl]_vars

\* a call skipped by the risk gate of an engine that holds a position
C1_Witness ==
  /\ ~IsNone(report)
  /\ report[1].skipped
  /\ report[1].reason = Some("risk_blocked")
  /\ report[1].call = nexec
  /\ \E s \in Symbols : positions[s].quantity # 0

(***************************************************************************)
(* C2                                                                      *)
(***************************************************************************)
\* C2: once a halt reason is stored, no step of the engine clears it, and every
\* later call of execute_complete_set returns skipped=true with the stored
\* reason.
C2_CircuitLatched ==
  [][~IsNone(halted) =>
       /\ ~IsNone(halted')
       /\ nexec' # nexec => /\ ReturnsSkip
                            /\ SkipReason = halted
                            /\ halted' = halted]_vars

\* a call refused for stale data although the book has been refreshed since
C2_Witness ==
  /\ halted = Some("stale_data")
  /\ now - book["m1"].last_update <= Config.max_data_staleness_seconds
  /\ ~IsNone(report)
  /\ report[1].call = nexec
  /\ report[1].skipped
  /\ report[1].reason = Some("stale_data")
  /\ nexec >= 2

(***************************************************************************)
(* C3                                                                      *)
(***************************************************************************)
\* C3 as stated: from the step that trips the circuit onward the engine issues
\* no place_order or mint_complete_set call.
C3_NoCallOnceTripped ==
  [][~IsNone(halted') => calls' = calls]_vars

\* C3: while the circuit is tripped no call of execute_complete_set issues a
\* venue call; the only venue calls are the next legs of attempts admitted
\* before.
C3_TrippedRefusesNewAttempts ==
  [][(~IsNone(halted) /\ calls' # calls) =>
       /\ nexec' = nexec
       /\ \E a \in attempts : \E b \in attempts' :
            /\ b.call = a.call
            /\ b.order = Len(calls')
            /\ a.order < b.order]_vars

\* the circuit tripped by the first leg of an attempt whose second leg is then
\* submitted all the same
C3_Witness ==
  /\ ~IsNone(halted)
  /\ \E a \in attempts :
       /\ a.done # <<>>
       /\ orders[a.done[1]].status = "timeout"
       /\ orders[a.order].status = "new"
  /\ reject_streak >= Config.max_reject_streak

(***************************************************************************)
(* C4                                                                      *)
(***************************************************************************)
\* C4: a call that passes the circuit, staleness and hedge stages is refused
\* with reason duplicate exactly when a claim of its key (market, direction,
\* edge rounded to 6 places) is stored and younger than the TTL.
C4_DuplicateWithinTtl ==
  [][\A opp \in Opportunities : \A size \in SizeArgs :
       (Execute(opp, size) /\ PassesCircuits(opp)) =>
         ((ReturnsSkip /\ SkipReason = Some("duplicate")) <=> ClaimedWithinTtl(opp))]_vars

(***************************************************************************)
(* C5                                                                      *)
(***************************************************************************)
\* C5 as stated: a timeout or a rejected response adds one to the reject
\* streak and trips the circuit with reason reject_streak when the streak
\* reaches max_reject_streak; a response reporting a positive filled quantity
\* resets the streak to 0.
C5_AnyFillResets ==
  [][\A a \in attempts : \A resp \in Responses(a.trade_size) :
       Respond(a, resp) =>
         /\ (resp.kind = "timeout" \/ (resp.kind = "response" /\ resp.rejected)) =>
              /\ reject_streak' = reject_streak + 1
              /\ reject_streak' >= Config.max_reject_streak =>
                   halted' = Some("reject_streak")
         /\ (resp.kind = "response" /\ resp.filled > 0) => reject_streak' = 0]_vars

\* C5: a timeout or a rejected response, whatever fill it reports, adds one to
\* the reject streak and trips the circuit with reason reject_streak when the
\* streak reaches max_reject_streak; a response that is not rejected and
\* reports a positive filled quantity resets the streak to 0; a response that
\* is not rejected and reports no fill leaves it as it was.
C5_RejectStreak ==
  [][\A a \in attempts : \A resp \in Responses(a.trade_size) :
       Respond(a, resp) =>
         /\ (resp.kind = "timeout" \/ (resp.kind = "response" /\ resp.rejected)) =>
              /\ reject_streak' = reject_streak + 1
              /\ reject_streak' >= Config.max_reject_streak =>
                   halted' = Some("reject_streak")
         /\ (resp.kind = "response" /\ ~resp.rejected /\ resp.filled > 0) =>
              reject_streak' = 0
         /\ (resp.kind = "response" /\ ~resp.rejected /\ resp.filled = 0) =>
              reject_streak' = reject_streak]_vars

\* a fill after a rejected order has brought the streak back to 0
C5_Witness ==
  /\ reject_streak = 0
  /\ IsNone(halted)
  /\ \E i \in 1..Len(orders) : \E j \in 1..Len(orders) :
       /\ i < j
       /\ orders[i].status \in {"rejected", "timeout"}
       /\ orders[j].status = "filled"

(***************************************************************************)
(* C6                                                                      *)
(***************************************************************************)
\* the sum over the outcomes of the book that quote the field, in cents
QuotedSum(opp, field) ==
  LET os == book[opp.market_id].outcomes
      known == {i \in 1..Len(os) : ~IsNone(QuoteField(os[i], field))}
      RECURSIVE Total(_)
      Total(S) == IF S = {} THEN 0
                  ELSE LET i == CHOOSE x \in S : TRUE
                       IN  Val(QuoteField(os[i], field)) + Total(S \ {i})
  IN  Total(known)

\* the fee of the book in basis points, 0 when the book has none
BookFeeBps(opp) ==
  IF IsNone(book[opp.market_id].fee_bps) THEN 0 ELSE Val(book[opp.market_id].fee_bps)

\* the edge re-check of the claim, on integers: cents, percent, basis points
EdgeHolds(opp) ==
  IF opp.direction = "buy_set"
  THEN QuotedSum(opp, "ask") * (100 + Config.max_slippage_pct) * (10000 + BookFeeBps(opp))
         < 100 * 100 * 10000
  ELSE QuotedSum(opp, "bid") * (100 - Config.max_slippage_pct) * 10000
         > 100 * 100 * (10000 + BookFeeBps(opp))

\* C6: a call that reaches the edge re-check is let through only if, for a
\* buy_set, sum(asks) * (1 + max_slippage_pct) * (1 + fee_bps/10000) < 1 and,
\* for a sell_set, sum(bids) * (1 - max_slippage_pct) / (1 + fee_bps/10000) > 1;
\* otherwise it returns skipped with reason edge_erased and calls no venue.
C6_EdgeRecheck ==
  [][\A opp \in Opportunities : \A size \in SizeArgs :
       (Execute(opp, size) /\ PassesCircuits(opp) /\ ~ClaimedWithinTtl(opp)
          /\ ~EdgeHolds(opp)) =>
         /\ ReturnsSkip
         /\ SkipReason = Some("edge_erased")
         /\ calls' = calls]_vars

\* a buy_set refused on asks of 0.49 + 0.49 with 5% slippage and no fee
C6_Witness ==
  /\ ~IsNone(report)
  /\ report[1].skipped
  /\ report[1].reason = Some("edge_erased")
  /\ report[1].call = nexec
  /\ nexec = 1
  /\ ~IsNone(recent[<<"m1", "buy_set", 1000000>>])
  /\ QuotedSum([market_id |-> "m1"], "ask") = 98
  /\ IsNone(book["m1"].fee_bps)

(***************************************************************************)
(* C7                                                                      *)
(***************************************************************************)
\* the symbols of the legs of the trade: the outcomes that quote the side
\* traded and, for a sell_set, the mint symbol
LegSymbols(opp) ==
  LET os == book[opp.market_id].outcomes
  IN  {OutcomeSymbol(opp.market_id, os[i].outcome_id) :
         i \in {j \in 1..Len(os) : ~IsNone(QuoteField(os[j], LegField(opp)))}}
      \cup (IF opp.direction = "sell_set" THEN {MintSymbol(opp.market_id)} ELSE {})

\* the position the trade would leave on symbol s
Projected(opp, size, s) ==
  IF opp.direction = "buy_set" \/ s = MintSymbol(opp.market_id)
  THEN positions[s].quantity + TradeSize(opp, size)
  ELSE positions[s].quantity - TradeSize(opp, size)

\* the projection of a leg breaches its cap or its limit, a symbol without
\* one counting as a breach
PositionBreach(opp, size) ==
  \E s \in LegSymbols(opp) :
    \/ IsNone(InventoryCaps.caps[s])
    \/ Abs(Projected(opp, size, s)) > Val(InventoryCaps.caps[s])
    \/ IsNone(RiskLimits.max_position_sizes[s])
    \/ Abs(Projected(opp, size, s)) > Val(RiskLimits.max_position_sizes[s])

\* the slippage-adjusted price sum times the trade size exceeds the notional
\* limit (cents and percent)
NotionalBreach(opp, size) ==
  QuotedSum(opp, LegField(opp))
    * (IF opp.direction = "buy_set" THEN 100 + Config.max_slippage_pct
       ELSE 100 - Config.max_slippage_pct)
    * TradeSize(opp, size)
  > 100 * RiskLimits.max_notional_usd

\* the call gets as far as the risk stage
ReachesRiskStage(opp, size) ==
  /\ PassesCircuits(opp)
  /\ ~ClaimedWithinTtl(opp)
  /\ QuotedSum(opp, LegField(opp)) > 0
  /\ EdgeHolds(opp)
  /\ TradeSize(opp, size) > 0

\* C7: a call that reaches the risk stage is refused with reason risk_blocked,
\* and calls no venue, when the projected notional exceeds max_notional_usd or
\* the projected position of a leg (current + trade size per outcome for a
\* buy_set; current - trade size per outcome and current + trade size on the
\* mint symbol for a sell_set) breaches its inventory cap or its position limit.
C7_PositionRiskGate ==
  [][\A opp \in Opportunities : \A size \in SizeArgs :
       (Execute(opp, size) /\ ReachesRiskStage(opp, size)
          /\ (NotionalBreach(opp, size) \/ PositionBreach(opp, size))) =>
         /\ ReturnsSkip
         /\ SkipReason = Some("risk_blocked")
         /\ calls' = calls]_vars

\* a second buy refused while the no leg of the first is held at its limit
C7_Witness ==
  /\ ~IsNone(report)
  /\ report[1].skipped
  /\ report[1].reason = Some("risk_blocked")
  /\ report[1].call = nexec
  /\ positions[<<"m1", "no">>].quantity = 1
  /\ positions[<<"m1", "yes">>].quantity = 0
  /\ book["m1"].outcomes = QuotesCheap
  /\ IsNone(halted)

(***************************************************************************)
(* C8                                                                      *)
(***************************************************************************)
\* C8: with dry_run set the engine calls no venue, and every order of a report
\* that is not skipped is filled in full.
C8_DryRunNoNetwork ==
  dry_run =>
    /\ calls = <<>>
    /\ (~IsNone(report) /\ ~report[1].skipped) =>
         \A k \in 1..Len(report[1].orders) :
           /\ orders[report[1].orders[k]].status = "filled"
           /\ orders[report[1].orders[k]].filled_quantity
                = orders[report[1].orders[k]].quantity

(***************************************************************************)
(* C9                                                                      *)
(***************************************************************************)
\* the value returned by the order-book ingest that produced the current book
Returned ==
  found[1].result

AfterBookIngest ==
  ~IsNone(found) /\ found[1].type \in {"order_book", "order_book_snapshot"}

\* the fee-adjusted sums clear the threshold strictly
AskSumBelow ==
  RLt(AskSum(book["m1"]), RSub(RInt(100), RDiv(RInt(MinEdgeBps), RInt(100))))

BidSumAbove ==
  RLt(RAdd(RInt(100), RDiv(RInt(MinEdgeBps), RInt(100))), BidSum(book["m1"]))

BuySet ==
  Some(CompleteSetOpportunity("m1", "buy_set", RSub(RInt(100), AskSum(book["m1"])),
                              AskSum(book["m1"]), MaxSize(book["m1"])))

SellSet ==
  Some(CompleteSetOpportunity("m1", "sell_set", RSub(BidSum(book["m1"]), RInt(100)),
                              BidSum(book["m1"]), MaxSize(book["m1"])))

\* C9 as stated: after an order-book ingest, a fee-adjusted ask sum below
\* 1 - min_edge_bps/10000 makes ingest return the buy_set opportunity (edge
\* 1 - ask_sum, notional ask_sum, max_size the minimum size), and a
\* fee-adjusted bid sum above 1 + min_edge_bps/10000 the sell_set opportunity.
C9_SumsAloneDecide ==
  AfterBookIngest =>
    /\ AskSumBelow => Returned = BuySet
    /\ BidSumAbove => Returned = SellSet

\* the detector has something to trade: two outcomes and a positive least size
Tradable ==
  Len(book["m1"].outcomes) >= 2 /\ MaxSize(book["m1"]) > 0

\* the sell edge is strictly the larger one
SellEdgeLarger ==
  RLt(RSub(RInt(100), AskSum(book["m1"])), RSub(BidSum(book["m1"]), RInt(100)))

\* C9: after an order-book ingest into a market with at least two outcomes and
\* a positive minimum size, a fee-adjusted ask sum below 1 - min_edge_bps/10000
\* makes ingest return the buy_set opportunity unless the bid sum qualifies
\* with a strictly larger edge; a fee-adjusted bid sum above
\* 1 + min_edge_bps/10000 makes it return the sell_set opportunity unless the
\* ask sum qualifies with an edge at least as large; with fewer than two
\* outcomes or no positive size it returns nothing.
C9_Detects ==
  AfterBookIngest =>
    /\ (Tradable /\ AskSumBelow /\ ~(BidSumAbove /\ SellEdgeLarger)) => Returned = BuySet
    /\ (Tradable /\ BidSumAbove /\ (AskSumBelow => SellEdgeLarger)) => Returned = SellSet
    /\ ~Tradable => IsNone(Returned)

\* yes and no asked at 0.45 with sizes 10 and 12: buy_set, edge 0.10,
\* notional 0.90, max_size 10
C9_Witness ==
  /\ AfterBookIngest
  /\ book["m1"].outcomes = <<Quote("yes", None, Some(45), Some(10)),
                             Quote("no", None, Some(45), Some(12))>>
  /\ IsNone(book["m1"].fee_bps)
  /\ Returned = Some(CompleteSetOpportunity("m1", "buy_set", RInt(10), RInt(90), 10))

(***************************************************************************)
(* C10                                                                     *)
(***************************************************************************)
\* C10: a fill realizes PnL only over the part that closes opposite exposure,
\* closed_qty = min(fill quantity, |position|): (entry_avg - price) * closed_qty
\* for a buy closing a short, (price - entry_avg) * closed_qty for a sell
\* closing a long, nothing otherwise.
C10_RealizesClosedPortion ==
  [][\A side \in {"buy", "sell"} : \A quantity \in FillQuantities :
       \A price \in FillPrices :
         Fill(side, quantity, price) =>
           LET closed == Min(quantity, Abs(fpos.quantity))
               gained == RSub(frealized', frealized)
           IN  IF side = "buy" /\ fpos.quantity < 0
               THEN gained = RMul(RSub(fpos.avg_price, price), RInt(closed))
               ELSE IF side = "sell" /\ fpos.quantity > 0
               THEN gained = RMul(RSub(price, fpos.avg_price), RInt(closed))
               ELSE gained = RInt(0)]_vars

\* flat, buy 10 @0.40, sell 15 @0.60: realized 2.0, position -5 @0.60
C10_Witness ==
  /\ fhist = <<[side |-> "buy", quantity |-> 10, price |-> RInt(40)],
               [side |-> "sell", quantity |-> 15, price |-> RInt(60)]>>
  /\ frealized = RInt(200)
  /\ fpos = Position(-5, RInt(60))

(***************************************************************************)
(* C11                                                                     *)
(***************************************************************************)
\* the key of the frame just processed, and the sequence stored for it before
FrameKey ==
  FeedKey(frame'[1].message.type, frame'[1].message.market, frame'[1].message.outcome)

\* C11: for a key whose stored sequence is s, a message with sequence s+1+g,
\* g >= 1, produces exactly one gap detection of size g and exactly one REST
\* fallback invocation and stores s+1+g; a message with sequence s+1 produces
\* neither and stores s+1.
C11_OneGapOneFallback ==
  [][(/\ frame' # frame \/ tracker' # tracker
      /\ FrameKey \in FeedKeys
      /\ ~IsNone(frame'[1].message.sequence)
      /\ ~IsNone(tracker[FrameKey])) =>
       LET s == Val(tracker[FrameKey])
           q == Val(frame'[1].message.sequence)
       IN  /\ q >= s + 1 => tracker'[FrameKey] = Some(q)
           /\ \A k \in FeedKeys \ {FrameKey} : tracker'[k] = tracker[k]
           /\ q > s + 1 => (frame'[1].gaps = <<q - s - 1>> /\ frame'[1].rest = 1)
           /\ q = s + 1 => (frame'[1].gaps = <<>> /\ frame'[1].rest = 0)]_vars

\* sequence 1 then 4: one gap of size 2, one fallback, 4 stored
C11_Witness ==
  /\ ~IsNone(frame)
  /\ frame[1].message = Message("orderbook", "m1", Some("yes"), Some(4))
  /\ frame[1].gaps = <<2>>
  /\ frame[1].rest = 1
  /\ tracker[<<"orderbook", "m1", "yes">>] = Some(4)

(***************************************************************************)
(* C12                                                                     *)
(***************************************************************************)
RECURSIVE Power(_, _)
Power(b, e) ==
  IF e = 0 THEN 1 ELSE b * Power(b, e - 1)

\* C12: the base delay of the n-th consecutive reconnect sleep with no yielded
\* message in between is min(initial * factor^(n-1), maximum), the sleep adds
\* a jitter in [0, jitter], and the first reconnect after a yielded message
\* sleeps on base delay initial.
C12_Backoff ==
  (pc = "sleeping" /\ ~IsNone(slept)) =>
    /\ slept[1].base = Min(backoff.initial * Power(backoff.factor, nfail - 1),
                           backoff.maximum)
    /\ slept[1].jitter \in 0..backoff.jitter
    /\ nfail = 1 => slept[1].base = backoff.initial

\* initial 1, factor 2, maximum 5: the fourth reconnect in a row sleeps on 5
C12_Witness ==
  /\ pc = "sleeping"
  /\ backoff = [initial |-> 1, maximum |-> 5, factor |-> 2, jitter |-> 1]
  /\ nfail = 4
  /\ slept = Some([base |-> 5, jitter |-> 1])
  /\ ~IsNone(frame)
  /\ ~IsNone(frame[1].out)

(***************************************************************************)
(* C13                                                                     *)
(***************************************************************************)
\* C13: with the circuit closed, a call on a book older than
\* max_data_staleness_seconds returns skipped with reason stale_data and trips
\* the circuit with that reason; a book whose age is exactly the limit is not
\* stale; once tripped for stale data, calls for every market are refused with
\* that reason and call no venue.
C13_StaleDataTrips ==
  [][\A opp \in OpportunitiesAcross :
       Execute(opp, Some(1)) =>
         LET age == now - book[opp.market_id].last_update
         IN  /\ (IsNone(halted) /\ age > Config.max_data_staleness_seconds) =>
                  /\ ReturnsSkip
                  /\ SkipReason = Some("stale_data")
                  /\ halted' = Some("stale_data")
             /\ (IsNone(halted) /\ age <= Config.max_data_staleness_seconds) =>
                  /\ ~(ReturnsSkip /\ SkipReason = Some("stale_data"))
                  /\ halted' # Some("stale_data")
             /\ halted = Some("stale_data") =>
                  /\ ReturnsSkip
                  /\ SkipReason = Some("stale_data")
                  /\ calls' = calls]_vars

\* the circuit tripped on the stale book of m1, and a later call refused while
\* the book of m2 is fresh and that of m1 is still stale
C13_Witness ==
  /\ halted = Some("stale_data")
  /\ now - book["m1"].last_update > Config.max_data_staleness_seconds
  /\ now - book["m2"].last_update = Config.max_data_staleness_seconds
  /\ nexec >= 2
  /\ ~IsNone(report)
  /\ report[1].call = nexec
  /\ report[1].skipped
  /\ report[1].reason = Some("stale_data")
  /\ IsNone(recent[<<"m2", "buy_set", 1000000>>])

C15_ReportShapes ==
  [][report' # report =>
       LET r == report'[1]
       IN  IF r.skipped
           THEN /\ r.orders = <<>>
                /\ r.reason \in {Some(x) : x \in {"stale_data", "hedge_circuit",
                                                  "reject_streak", "daily_loss_limit",
                                                  "duplicate", "edge_erased",
                                                  "no_size_available", "risk_blocked"}}
           ELSE /\ IsNone(r.reason)
                /\ \A i \in 1..Len(r.orders) :
                     /\ r.orders[i] \in 1..Len(orders')
                     /\ i > 1 => r.orders[i - 1] < r.orders[i]
                /\ \/ /\ r.orders = <<>>
                      /\ r.call = nexec'
                      /\ calls' = calls
                   \/ \E a \in attempts :
                        /\ a.call = r.call
                        /\ a \notin attempts'
                        /\ r.orders = Append(a.done, a.order)
                        /\ \A i \in 1..Len(r.orders) :
                             <<IF orders[r.orders[i]].symbol = MintSymbol(a.opp.market_id)
                               THEN "mint_complete_set" ELSE "place_order",
                               r.orders[i]>>
                               \in {calls[j] : j \in 1..Len(calls)}]_vars

\* the report of a sell_set attempt: the mint, then a leg that timed out, then
\* a leg that filled
C15_Witness ==
  /\ ~IsNone(report)
  /\ ~report[1].skipped
  /\ Len(report[1].orders) = 3
  /\ orders[report[1].orders[1]].symbol = <<"m1">>
  /\ orders[report[1].orders[2]].status = "timeout"
  /\ orders[report[1].orders[3]].status = "filled"

(***************************************************************************)
(* C16                                                                     *)
(***************************************************************************)
\* C16: the reason reported is that of the first stage that fails, in the
\* order circuit open, stale_data, hedge_circuit, duplicate, edge_erased,
\* no_size_available, risk_blocked; a stale book or an open hedge circuit
\* trips the circuit and claims no idempotency key; a duplicate or an erased
\* edge leaves the circuit as it was.
C16_StageOrder ==
  [][\A opp \in Opportunities : \A size \in SizeArgs :
       Execute(opp, size) =>
         LET stale == now - book[opp.market_id].last_update
                        > Config.max_data_staleness_seconds
             erased == ~(QuotedSum(opp, LegField(opp)) > 0 /\ EdgeHolds(opp))
             risk == \/ NotionalBreach(opp, size)
                     \/ PositionBreach(opp, size)
                     \/ RLt(RInt(RiskLimits.daily_loss_limit_usd), CurrentRealizedLoss)
             first == IF ~IsNone(halted) THEN halted
                      ELSE IF stale THEN Some("stale_data")
                      ELSE IF hedge_open THEN Some("hedge_circuit")
                      ELSE IF ClaimedWithinTtl(opp) THEN Some("duplicate")
                      ELSE IF erased THEN Some("edge_erased")
                      ELSE IF TradeSize(opp, size) <= 0 THEN Some("no_size_available")
                      ELSE IF risk THEN Some("risk_blocked")
                      ELSE None
         IN  /\ ~IsNone(first) => (ReturnsSkip /\ SkipReason = first)
             /\ IsNone(first) => ~ReturnsSkip
             /\ first \in {Some("stale_data"), Some("hedge_circuit")} =>
                  (halted' = first /\ recent' = recent)
             /\ first \in {halted, Some("duplicate"), Some("edge_erased")} =>
                  halted' = halted]_vars

(***************************************************************************)
(* C17                                                                     *)
(***************************************************************************)
\* the sum of the first n fills applied to order id
RECURSIVE AppliedTo(_, _)
AppliedTo(id, n) ==
  IF n = 0 THEN 0
  ELSE AppliedTo(id, n - 1) + (IF fills[n][1] = id THEN fills[n][2] ELSE 0)

\* C17: after any sequence of update_fill calls the filled_quantity of an
\* order is the sum of the fills applied to it, and the status of an order
\* that was updated is filled exactly when that sum reaches the requested
\* quantity, and partial_fill otherwise.
C17_FillStatus ==
  \A id \in 1..Len(orders) :
    /\ orders[id].filled_quantity = AppliedTo(id, Len(fills))
    /\ (\E n \in 1..Len(fills) : fills[n][1] = id) =>
         /\ orders[id].status = "filled"
              <=> AppliedTo(id, Len(fills)) >= orders[id].quantity
         /\ orders[id].status = "partial_fill"
              <=> AppliedTo(id, Len(fills)) < orders[id].quantity

\* an order of 3 filled by 1 and then 2 while another order of 3 holds a
\* partial fill of 2
C17_Witness ==
  /\ Len(orders) = 2
  /\ fills = <<<<1, 1>>, <<2, 2>>, <<1, 2>>>>
  /\ orders[1].quantity = 3
  /\ orders[1].status = "filled"
  /\ orders[2].quantity = 3
  /\ orders[2].status = "partial_fill"

(***************************************************************************)
(* C18                                                                     *)
(***************************************************************************)
\* C18: after an order-book ingest, ingest returns no opportunity when fewer
\* than two outcomes of the market carry a bid, an ask or a size, or when no
\* outcome carries a size, or when the least size carried is not positive.
C18_NothingWithoutData ==
  AfterBookIngest =>
    LET os == book["m1"].outcomes
        carrying == {i \in 1..Len(os) :
                       ~(IsNone(os[i].bid) /\ IsNone(os[i].ask) /\ IsNone(os[i].size))}
    IN  (Cardinality(carrying) < 2 \/ MaxSize(book["m1"]) <= 0) => IsNone(Returned)

(***************************************************************************)
(* C19                                                                     *)
(***************************************************************************)
\* C19: stream ends only by cancellation, which is re-raised; a failure while
\* connecting or consuming, and a normal close of the socket, lead to the
\* backoff sleep without anything raised to the consumer; the sleep can always
\* return, and when it does a new connection is attempted.
C19_EndsOnlyByCancellation ==
  /\ [](pc = "sleeping" => ENABLED Wake)
  /\ [][/\ (pc' = "ended" /\ pc # "ended") =>
             (raised' = Some("CancelledError") /\ (pc # "sleeping" => ~running'))
        /\ ~IsNone(raised') => (pc' = "ended" /\ raised' = Some("CancelledError"))
        /\ (pc \in {"connecting", "consuming"} /\ nfail' = nfail + 1) =>
             (pc' = "sleeping" /\ ~IsNone(slept') /\ IsNone(raised') /\ running')
        /\ (pc = "sleeping" /\ pc' # "sleeping") => pc' \in {"connecting", "ended"}
        /\ pc = "ended" => pc' = "ended"]_vars

\* the stream was cancelled after a message was yielded, two failures in a row
\* were slept through and the connection was attempted again
C19_Witness ==
  /\ pc = "ended"
  /\ raised = Some("CancelledError")
  /\ ~running
  /\ nfail = 2
  /\ ~IsNone(slept)
  /\ ~IsNone(frame)
  /\ ~IsNone(frame[1].out)

(***************************************************************************)
(* C20                                                                     *)
(***************************************************************************)
\* C20: for a frame on which a sequence gap is detected, the feed yields
\* nothing when the REST fallback returns no data, and yields the snapshot in
\* place of the live event when the fallback returns data.
C20_FallbackFailureDrops ==
  [][\A rest \in RestAnswers :
       (/\ pc = "consuming"
        /\ ~IsNone(frame')
        /\ Frame(frame'[1].message, rest)
        /\ frame'[1].gaps # <<>>) =>
         /\ rest = "none" => IsNone(frame'[1].out)
         /\ rest = "data" =>
              /\ ~IsNone(frame'[1].out)
              /\ Val(frame'[1].out).type \in {"order_book_snapshot", "trade_snapshot"}
              /\ IsNone(Val(frame'[1].out).sequence)]_vars

(***************************************************************************)
(* C21                                                                     *)
(***************************************************************************)
\* C21: the order state of every leg is recorded under its own fresh id before
\* the venue call of the leg starts: the client_order_id of every venue call,
\* in flight or over, whatever its outcome, is the id of a recorded order, and
\* no two orders or calls share an id.
C21_RecordedBeforeCall ==
  /\ \A i \in 1..Len(orders) : orders[i].order_id = i
  /\ \A j \in 1..Len(calls) :
       /\ \E i \in 1..Len(orders) : orders[i].order_id = calls[j][2]
       /\ \A k \in 1..Len(calls) : calls[k][2] = calls[j][2] => k = j
  /\ \A a \in attempts :
       /\ \E i \in 1..Len(orders) : orders[i].order_id = a.order
       /\ \E j \in 1..Len(calls) : calls[j][2] = a.order

\* a call timed out, a call was rejected, a call ended leaving its order new
\* outside the last report, and a call is in flight: all four ids are recorded
C21_Witness ==
  /\ Len(calls) = 4
  /\ Len(orders) = 4
  /\ \E i \in 1..4 : orders[i].status = "timeout"
  /\ \E i \in 1..4 : orders[i].status = "rejected"
  /\ \E i \in 1..4 : /\ orders[i].status = "new"
                     /\ \A a \in attempts : a.order # i
                     /\ \A r \in {report[k] : k \in 1..Len(report)} :
                          \A n \in 1..Len(r.orders) : r.orders[n] # i
  /\ Cardinality(attempts) = 1

(***************************************************************************)
(* C22                                                                     *)
(***************************************************************************)
\* C22: the trade size of a call that gets as far as the size stage is
\* min(the size argument when one is given, else max_size; max_size); when it
\* is not positive the call is skipped with reason no_size_available; when the
\* call is admitted every leg it submits carries that quantity, which is
\* positive and at most max_size.
C22_TradeSize ==
  [][\A opp \in Opportunities : \A size \in SizeRequests :
       (/\ Execute(opp, size)
        /\ PassesCircuits(opp)
        /\ ~ClaimedWithinTtl(opp)
        /\ QuotedSum(opp, LegField(opp)) > 0
        /\ EdgeHolds(opp)) =>
         LET requested == Min(IF IsNone(size) THEN opp.max_size ELSE Val(size),
                              opp.max_size)
         IN  /\ requested <= 0 => (ReturnsSkip /\ SkipReason = Some("no_size_available"))
             /\ \A a \in attempts' \ attempts :
                  /\ a.trade_size = requested
                  /\ orders'[a.order].quantity = requested
                  /\ 0 < requested /\ requested <= opp.max_size]_vars

(***************************************************************************)
(* C23                                                                     *)
(***************************************************************************)
\* C23: after a fill the average price is unchanged when the fill reduces or
\* exactly closes the position, is the fill price when the position was flat
\* or the fill flips its sign, and is
\* (|old_qty| * old_avg + fill_qty * price) / |new_qty| when the fill extends
\* the position in its own direction.
C23_AveragePrice ==
  [][fhist' # fhist =>
       LET f == fhist'[Len(fhist')]
           q0 == fpos.quantity
           a0 == fpos.avg_price
           signed == IF f.side = "buy" THEN f.quantity ELSE 0 - f.quantity
           opposite == (q0 > 0 /\ signed < 0) \/ (q0 < 0 /\ signed > 0)
       IN  /\ fpos'.quantity = q0 + signed
           /\ (opposite /\ Abs(signed) <= Abs(q0)) => fpos'.avg_price = a0
           /\ (q0 = 0 \/ (opposite /\ Abs(signed) > Abs(q0))) => fpos'.avg_price = f.price
           /\ (q0 # 0 /\ ~opposite) =>
                fpos'.avg_price = RDiv(RAdd(RMul(RInt(Abs(q0)), a0),
                                            RMul(RInt(f.quantity), f.price)),
                                       RInt(Abs(q0 + signed)))]_vars

\* a short of 10 opened at 0.40 and extended by a sale of 5 at 0.60 (average
\* 140/3 cents), then reduced by a purchase of 10 that leaves the average
\* where it was
C23_Witness ==
  /\ Len(fhist) = 3
  /\ fhist[1] = [side |-> "sell", quantity |-> 10, price |-> RInt(40)]
  /\ fhist[2] = [side |-> "sell", quantity |-> 5, price |-> RInt(60)]
  /\ fhist[3] = [side |-> "buy", quantity |-> 10, price |-> RInt(60)]
  /\ fpos = Position(-5, RDiv(RInt(140), RInt(3)))

(***************************************************************************)
(* C24                                                                     *)
(***************************************************************************)
\* C24: an admitted buy_set submits one buy per outcome of the book of the
\* market, in the order of the book, each for the trade size at the limit
\* price ask * (1 + max_slippage_pct): the report of the attempt lists one buy
\* order for every outcome of the book.
C24_BuysEveryOutcome ==
  [][\A a \in attempts :
       (/\ a.opp.direction = "buy_set"
        /\ a \notin attempts'
        /\ report' # report
        /\ report'[1].call = a.call) =>
         LET os == book[a.opp.market_id].outcomes
             ids == report'[1].orders
         IN  /\ Len(ids) = Len(os)
             /\ \A i \in 1..Len(ids) :
                  /\ i <= Len(os)
                  /\ orders'[ids[i]].symbol = OutcomeSymbol(a.opp.market_id, os[i].outcome_id)
                  /\ orders'[ids[i]].side = "buy"
                  /\ orders'[ids[i]].quantity = a.trade_size
                  /\ ~IsNone(os[i].ask)
                  /\ orders'[ids[i]].price
                       = Some(RDiv(RInt(Val(os[i].ask) * (100 + Config.max_slippage_pct)),
                                   RInt(100)))]_vars

(***************************************************************************)
(* C25                                                                     *)
(***************************************************************************)
\* C25: an admitted sell_set makes one mint_complete_set call for the trade
\* size before any sell, then submits one sell per outcome of the book at the
\* limit price bid * (1 - max_slippage_pct); the mint order is the first order
\* of the report.
C25_MintThenSells ==
  [][\A a \in attempts :
       (/\ a.opp.direction = "sell_set"
        /\ a \notin attempts'
        /\ report' # report
        /\ report'[1].call = a.call) =>
         LET os == book[a.opp.market_id].outcomes
             ids == report'[1].orders
             minted == {j \in 1..Len(calls) :
                          calls[j] = <<"mint_complete_set", ids[1]>>}
         IN  /\ Len(ids) = 1 + Len(os)
             /\ orders'[ids[1]].symbol = MintSymbol(a.opp.market_id)
             /\ orders'[ids[1]].quantity = a.trade_size
             /\ Cardinality(minted) = 1
             /\ \A i \in 2..Len(ids) :
                  /\ i - 1 <= Len(os)
                  /\ orders'[ids[i]].symbol
                       = OutcomeSymbol(a.opp.market_id, os[i - 1].outcome_id)
                  /\ orders'[ids[i]].side = "sell"
                  /\ orders'[ids[i]].quantity = a.trade_size
                  /\ ~IsNone(os[i - 1].bid)
                  /\ orders'[ids[i]].price
                       = Some(RDiv(RInt(Val(os[i - 1].bid) * (100 - Config.max_slippage_pct)),
                                   RInt(100)))
                  /\ <<"mint_complete_set", ids[i]>> \notin {calls[j] : j \in 1..Len(calls)}
                  /\ \A j \in minted : \A k \in 1..Len(calls) :
                       calls[k] = <<"place_order", ids[i]>> => j < k]_vars

(***************************************************************************)
(* C26                                                                     *)
(***************************************************************************)
\* C26: an execution attempt has at most one venue call in flight: the call of
\* a later leg starts in the step in which the call of the leg before it has
\* returned or timed out, and never while that call is in flight.
C26_OneCallPerAttempt ==
  /\ [](\A a \in attempts : \A b \in attempts : a.call = b.call => a = b)
  /\ [][(calls' # calls /\ nexec' = nexec) =>
          \E a \in attempts : \E b \in attempts' :
            /\ b.call = a.call
            /\ b.order = calls'[Len(calls')][2]
            /\ b.order # a.order
            /\ b.done = Append(a.done, a.order)
            /\ \A c \in attempts' : c.order # a.order]_vars

\* two attempts overlap, each with one call in flight, one of them on a later
\* leg
C26_Witness ==
  /\ Cardinality(attempts) = 2
  /\ Cardinality({a.call : a \in attempts}) = 2
  /\ \E a \in attempts : Len(a.done) >= 1
  /\ \E a \in attempts : a.done = <<>>

(***************************************************************************)
(* C27                                                                     *)
(***************************************************************************)
\* C27: a leg whose venue call times out or is rejected ends in status timeout
\* or rejected and keeps it; the leg is not submitted again; the attempt goes
\* on: the leg of the next outcome that quotes the side, if there is one, is
\* submitted in the same step, and the orders recorded before keep their state.
C27_FailedLegGoesOn ==
  [][/\ \A i \in 1..Len(orders) :
          orders[i].status \in {"timeout", "rejected"} => orders'[i] = orders[i]
     /\ \A a \in attempts :
          (/\ orders[a.order].status = "new"
           /\ orders'[a.order].status \in {"timeout", "rejected"}) =>
            LET os == book[a.opp.market_id].outcomes
                later == {i \in (a.leg + 1)..Len(os) :
                            ~IsNone(IF a.opp.direction = "buy_set" THEN os[i].ask
                                    ELSE os[i].bid)}
                id == Len(orders) + 1
            IN  /\ orders'[a.order].filled_quantity = 0
                /\ \A i \in 1..Len(orders) : i # a.order => orders'[i] = orders[i]
                /\ later = {} =>
                     /\ calls' = calls
                     /\ report' = Some(Report(a.call, FALSE, None, Append(a.done, a.order)))
                /\ later # {} =>
                     /\ calls' = Append(calls, <<"place_order", id>>)
                     /\ Len(orders') = id
                     /\ \E i \in later :
                          /\ \A j \in later : i <= j
                          /\ orders'[id].symbol
                               = OutcomeSymbol(a.opp.market_id, os[i].outcome_id)
                     /\ \A k \in 1..Len(a.done) : orders'[id].symbol # orders[a.done[k]].symbol
                     /\ orders'[id].symbol # orders[a.order].symbol
                     /\ \E b \in attempts' : b.call = a.call /\ b.order = id]_vars

\* the first leg of a buy_set timed out, the second was rejected, and the
\* report lists both
C27_Witness ==
  /\ ~IsNone(report)
  /\ ~report[1].skipped
  /\ Len(report[1].orders) = 2
  /\ orders[report[1].orders[1]].status = "timeout"
  /\ orders[report[1].orders[1]].symbol = <<"m1", "yes">>
  /\ orders[report[1].orders[2]].status = "rejected"
  /\ orders[report[1].orders[2]].symbol = <<"m1", "no">>

(***************************************************************************)
(* C28                                                                     *)
(***************************************************************************)
\* C28: an order recorded by the engine stays recorded; its state changes at
\* most once, from new to partial_fill, filled, rejected or timeout, in the
\* step in which its own venue call ends; an order in status new, rejected or
\* timeout has filled_quantity 0, and a filled or partly filled one a positive
\* filled_quantity.
C28_OrderLifecycle ==
  /\ [](\A i \in 1..Len(orders) :
          /\ orders[i].status \in {"new", "partial_fill", "filled", "rejected", "timeout"}
          /\ orders[i].status \in {"new", "rejected", "timeout"}
               <=> orders[i].filled_quantity = 0
          /\ orders[i].status = "filled" <=> orders[i].filled_quantity >= orders[i].quantity)
  /\ [][/\ Len(orders') >= Len(orders)
        /\ \A i \in 1..Len(orders) :
             orders'[i] # orders[i] =>
               /\ orders[i].status = "new"
               /\ orders'[i].status # "new"
               /\ [orders'[i] EXCEPT !.status = "new", !.filled_quantity = 0] = orders[i]
               /\ \E a \in attempts : a.order = i
               /\ \A b \in attempts' : b.order # i]_vars

\* four orders whose calls are over: one filled, one rejected, one timed out
\* and one left new
C28_Witness ==
  /\ Len(orders) = 4
  /\ attempts = {}
  /\ {orders[i].status : i \in 1..4} = {"filled", "rejected", "timeout", "new"}

(***************************************************************************)
(* C29                                                                     *)
(***************************************************************************)
\* C29: when the buy side and the sell side both qualify on an ingest, one
\* opportunity is returned, the one with the larger edge; when the two edges
\* are equal the direction returned is the same for every book, buy_set.
C29_LargerEdgeWins ==
  LET buy_edge == RSub(RInt(100), AskSum(book["m1"]))
      sell_edge == RSub(BidSum(book["m1"]), RInt(100))
      threshold == RDiv(RInt(MinEdgeBps), RInt(100))
  IN  (/\ AfterBookIngest
       /\ Tradable
       /\ RLe(threshold, buy_edge)
       /\ RLe(threshold, sell_edge)) =>
        /\ Returned \in {BuySet, SellSet}
        /\ RLe(buy_edge, Val(Returned).edge)
        /\ RLe(sell_edge, Val(Returned).edge)
        /\ RLt(buy_edge, sell_edge) => Returned = SellSet
        /\ RLt(sell_edge, buy_edge) => Returned = BuySet
        /\ buy_edge = sell_edge => Returned = BuySet

\* asks 0.45 + 0.45 and bids 0.55 + 0.55: both edges are 0.10 and buy_set is
\* returned
C29_Witness ==
  /\ AfterBookIngest
  /\ book["m1"].outcomes = <<Quote("yes", Some(55), Some(45), Some(10)),
                             Quote("no", Some(55), Some(45), None)>>
  /\ IsNone(book["m1"].fee_bps)
  /\ Returned = Some(CompleteSetOpportunity("m1", "buy_set", RInt(10), RInt(90), 10))

(***************************************************************************)
(* C30                                                                     *)
(***************************************************************************)
\* C30: an order-book ingest sets each field (bid, ask, size, fee_bps) of the
\* quote of its outcome to the value the event carries when it carries one and
\* leaves it as it was when it carries none (null for a quote seen for the
\* first time), and touches no other quote: every field holds the last value
\* carried for its market and outcome, and a null never clears one.
C30_LastValueKept ==
  [][\A data \in DetEvents :
       (Ingest(data) /\ data.type \in {"order_book", "order_book_snapshot"}) =>
         LET before == book[data.market_id].outcomes
             after == book'[data.market_id].outcomes
             i == IF \E k \in 1..Len(before) : before[k].outcome_id = data.outcome_id
                  THEN CHOOSE k \in 1..Len(before) : before[k].outcome_id = data.outcome_id
                  ELSE Len(before) + 1
             old == IF i <= Len(before) THEN before[i]
                    ELSE [outcome_id |-> data.outcome_id, bid |-> None, ask |-> None,
                          size |-> None, fee_bps |-> None]
         IN  /\ Len(after) = (IF i <= Len(before) THEN Len(before) ELSE Len(before) + 1)
             /\ \A k \in 1..Len(before) : k # i => after[k] = before[k]
             /\ after[i].outcome_id = data.outcome_id
             /\ after[i].bid = (IF IsNone(data.bid) THEN old.bid ELSE data.bid)
             /\ after[i].ask = (IF IsNone(data.ask) THEN old.ask ELSE data.ask)
             /\ after[i].size = (IF IsNone(data.size) THEN old.size ELSE data.size)
             /\ after[i].fee_bps
                  = (IF IsNone(data.fee_bps) THEN old.fee_bps ELSE data.fee_bps)
             /\ \A m \in Markets \ {data.market_id} : book'[m] = book[m]]_vars

\* the quote of yes holds the bid, ask and size of earlier events after a
\* snapshot that carried only a fee
C30_Witness ==
  /\ ~IsNone(found)
  /\ found[1].type = "order_book_snapshot"
  /\ book["m1"].outcomes
       = <<[outcome_id |-> "yes", bid |-> Some(60), ask |-> Some(45), size |-> Some(12),
            fee_bps |-> Some(100)]>>

(***************************************************************************)
(* C31                                                                     *)
(***************************************************************************)
\* C31: the ingest of a message whose type is trade, trade_snapshot, metadata
\* or metadata_snapshot returns no opportunity and changes nothing the
\* detector holds: the book of every market, of the message's market too, is
\* as it was (no outcome, quote, fee_bps or last_update differs, and a market
\* without a book still has none), and the engine is not called.
C31_OtherTypesIgnored ==
  [][\A type \in OtherTypes : \A m \in Markets :
       Ingest(MarketData(type, m, "yes", Some(50), Some(40), Some(7), Some(100))) =>
         /\ found' = Some([type |-> type, result |-> None])
         /\ \A k \in Markets :
              /\ book'[k].outcomes = book[k].outcomes
              /\ book'[k].fee_bps = book[k].fee_bps
              /\ book'[k].last_update = book[k].last_update
         /\ book' = book
         /\ nexec' = nexec /\ calls' = calls /\ orders' = orders]_vars

\* a metadata snapshot was ingested after the clock moved on: m1 keeps the
\* quotes and the time of its last order-book update, and m2 has no book
C31_Witness ==
  /\ ~IsNone(found)
  /\ found[1].type = "metadata_snapshot"
  /\ now = 2
  /\ book["m1"].outcomes
       = <<Quote("yes", Some(60), Some(45), Some(10)),
           Quote("no", Some(45), Some(55), Some(10))>>
  /\ book["m1"].last_update = 1
  /\ IsNone(book["m1"].fee_bps)
  /\ book["m2"] = EmptyBook("m2")

(***************************************************************************)
(* C32                                                                     *)
(***************************************************************************)
\* C32: the feed detects a gap on a frame, and makes a REST fetch for it,
\* exactly when the frame carries a sequence number, a sequence is stored for
\* its key, and the number is greater than the stored one plus 1: the first
\* frame of a key, a frame without sequence, the next sequence, and a repeated
\* or an older sequence detect no gap and fetch nothing.
C32_GapOnlyAhead ==
  [][(/\ pc = "consuming"
      /\ ~IsNone(frame')
      /\ \E rest \in RestAnswers : Frame(frame'[1].message, rest)
      /\ FrameKey \in FeedKeys) =>
       LET sequence == frame'[1].message.sequence
           previous == tracker[FrameKey]
           ahead == /\ ~IsNone(sequence)
                    /\ ~IsNone(previous)
                    /\ Val(sequence) > Val(previous) + 1
       IN  /\ frame'[1].gaps # <<>> <=> ahead
           /\ frame'[1].rest = (IF ahead THEN 1 ELSE 0)]_vars

(***************************************************************************)
(* C33                                                                     *)
(***************************************************************************)
\* C33: add_realized adds its value to the realized PnL of its symbol and
\* update_unrealized replaces the unrealized PnL of its symbol with its value;
\* each leaves the other field of the symbol and every other symbol as they
\* were, both fields start at 0, and total_pnl is the sum of realized plus
\* unrealized over the symbols.  The realized PnL is thus the sum of the values
\* added and the unrealized PnL the value written last.
C33_PnlTracker ==
  /\ [](/\ TotalPnl(pnl)
             = RAdd(RAdd(pnl[<<"m1", "yes">>].realized, pnl[<<"m1", "yes">>].unrealized),
                    RAdd(pnl[<<"m1", "no">>].realized, pnl[<<"m1", "no">>].unrealized))
        /\ \A s \in Symbols \ {<<"m1", "yes">>, <<"m1", "no">>} :
             pnl[s] = [realized |-> RInt(0), unrealized |-> RInt(0)])
  /\ [][\E s \in {<<"m1", "yes">>, <<"m1", "no">>} :
          LET added == RSub(pnl'[s].realized, pnl[s].realized)
          IN  /\ \A t \in Symbols \ {s} : pnl'[t] = pnl[t]
              /\ \/ /\ added \in {RInt(-1), RInt(2)}
                    /\ pnl'[s].unrealized = pnl[s].unrealized
                    /\ TotalPnl(pnl') = RAdd(TotalPnl(pnl), added)
                 \/ /\ pnl'[s].realized = pnl[s].realized
                    /\ pnl'[s].unrealized \in {RInt(-1), RInt(2)}
                    /\ TotalPnl(pnl')
                         = RAdd(RSub(TotalPnl(pnl), pnl[s].unrealized),
                                pnl'[s].unrealized)]_vars

\* yes: 2, 2 and -1 were added and the marks 2 and then -1 written; no: -1 was
\* added and nothing marked
C33_Witness ==
  /\ pnl[<<"m1", "yes">>] = [realized |-> RInt(3), unrealized |-> RInt(-1)]
  /\ pnl[<<"m1", "no">>] = [realized |-> RInt(-1), unrealized |-> RInt(0)]
  /\ TotalPnl(pnl) = RInt(1)

(***************************************************************************)
(* C34                                                                     *)
(***************************************************************************)
\* C34: every leg whose response reports a filled quantity above 0 is followed
\* by exactly one persist_snapshot call that carries the positions, the
\* inventory and the PnL as that fill left them.
C34_EveryFillPersisted ==
  [][\A a \in attempts : \A resp \in Responses(a.trade_size) :
       (Respond(a, resp) /\ resp.kind = "response" /\ resp.filled > 0) =>
         /\ store'.calls = store.calls + 1
         /\ store'.passed = Some([positions |-> positions', inventory |-> inventory',
                                  pnl |-> pnl'])]_vars

\* C34 (amended): a leg whose response carries no rejection marker and reports
\* a filled quantity above 0 is followed, in the step that handles the
\* response and before the next leg is submitted, by exactly one
\* persist_snapshot call whose payload holds the positions, the inventory and
\* the PnL as the fill left them; no other step calls persist_snapshot, a
\* rejected response that reports a fill included.  When the call fails the
\* store keeps what it held, the engine's state stays as the fill left it, and
\* the attempt goes on: the next leg is submitted or the report returned.
C34_FillPersisted ==
  [][/\ store'.calls
          = store.calls
              + (IF \E id \in 1..Len(orders) :
                      orders'[id].filled_quantity > orders[id].filled_quantity
                 THEN 1 ELSE 0)
     /\ store'.calls = store.calls =>
          (store'.passed = store.passed /\ store'.stored = store.stored)
     /\ \A a \in attempts : \A resp \in Responses(a.trade_size) :
          Respond(a, resp) =>
            LET o == orders[a.order]
                clean == resp.kind = "response" /\ ~resp.rejected /\ resp.filled > 0
                next == NextOutcome(book[a.opp.market_id], LegField(a.opp), a.leg)
                id == Len(orders) + 1
            IN  /\ store'.calls = store.calls + (IF clean THEN 1 ELSE 0)
                /\ clean =>
                     /\ store'.passed
                          = Some([positions |-> positions', inventory |-> inventory',
                                  pnl |-> pnl'])
                     /\ store'.stored = (IF store.down THEN store.stored ELSE store'.passed)
                     /\ positions'[o.symbol].quantity
                          = positions[o.symbol].quantity
                              + (IF o.side = "buy" THEN resp.filled ELSE -resp.filled)
                     /\ inventory'[o.symbol] = positions'[o.symbol].quantity
                     /\ orders'[a.order].filled_quantity = resp.filled
                     /\ next # 0 =>
                          /\ Len(orders') = id
                          /\ orders'[id].filled_quantity = 0
                          /\ calls' = Append(calls, <<"place_order", id>>)
                     /\ next = 0 =>
                          /\ calls' = calls
                          /\ report'
                               = Some(Report(a.call, FALSE, None, Append(a.done, a.order)))]_vars

\* both legs of a buy_set were filled while the store was down: two
\* persist_snapshot calls were made, the second with the positions after both
\* fills, nothing was stored, and the report lists the two filled legs
C34_Witness ==
  /\ store.down
  /\ store.calls = 2
  /\ IsNone(store.stored)
  /\ store.passed = Some([positions |-> positions, inventory |-> inventory, pnl |-> pnl])
  /\ positions[<<"m1", "yes">>].quantity = 1
  /\ positions[<<"m1", "no">>].quantity = 1
  /\ ~IsNone(report)
  /\ ~report[1].skipped
  /\ Len(report[1].orders) = 2
  /\ \A k \in 1..2 : orders[report[1].orders[k]].status = "filled"

(***************************************************************************)
(* C35                                                                     *)
(***************************************************************************)
\* C35: whatever the interleaving of the execute_complete_set calls, as long
\* as no leg is filled beyond its quantity, the absolute position of every
\* symbol stays within its position limit and within its inventory cap.
C35_WithinLimits ==
  \A s \in Symbols :
    /\ ~IsNone(RiskLimits.max_position_sizes[s])
    /\ Abs(positions[s].quantity) <= Val(RiskLimits.max_position_sizes[s])
    /\ ~IsNone(InventoryCaps.caps[s])
    /\ Abs(positions[s].quantity) <= Val(InventoryCaps.caps[s])

(***************************************************************************)
(* C36                                                                     *)
(***************************************************************************)
\* C36: in a sell_set attempt the mint call that times out, is rejected or
\* reports nothing minted is followed by the sell of the first outcome that
\* has a bid, for trade_size at the slipped bid, and every sell leg that ends
\* without raising by the sell of the next such outcome, whatever became of
\* the mint; a sell that fills takes the outcome's position down by the filled
\* quantity while the position on the market-id symbol holds what was minted.
C36_SellsAfterFailedMint ==
  [][\A a \in attempts : \A resp \in Responses(a.trade_size) \ {Raised} :
       (a.opp.direction = "sell_set" /\ Respond(a, resp)) =>
         LET market == book[a.opp.market_id]
             later == {i \in (a.leg + 1)..Len(market.outcomes) :
                         ~IsNone(market.outcomes[i].bid)}
             id == Len(orders) + 1
             o == orders[a.order]
             clean == resp.kind = "response" /\ ~resp.rejected /\ resp.filled > 0
         IN  /\ (a.leg = 0 /\ ~clean) =>
                  /\ positions'[MintSymbol(a.opp.market_id)]
                       = positions[MintSymbol(a.opp.market_id)]
                  /\ orders'[a.order].filled_quantity = 0
             /\ (a.leg > 0 /\ clean) =>
                  positions'[o.symbol].quantity = positions[o.symbol].quantity - resp.filled
             /\ later # {} =>
                  /\ Len(orders') = id
                  /\ calls' = Append(calls, <<"place_order", id>>)
                  /\ orders'[id].side = "sell"
                  /\ orders'[id].quantity = a.trade_size
                  /\ orders'[id].status = "new"
                  /\ \E i \in later :
                       /\ \A j \in later : i <= j
                       /\ orders'[id].symbol
                            = OutcomeSymbol(a.opp.market_id, market.outcomes[i].outcome_id)
                       /\ orders'[id].price
                            = Some(RMul(RInt(Val(market.outcomes[i].bid)), SlipDown))
             /\ later = {} =>
                  /\ calls' = calls
                  /\ report' = Some(Report(a.call, FALSE, None, Append(a.done, a.order)))]_vars

\* the mint timed out, both sells were sent and filled: yes and no are short
\* one unit each and no set is held on the market-id symbol
C36_Witness ==
  /\ ~IsNone(report)
  /\ ~report[1].skipped
  /\ Len(report[1].orders) = 3
  /\ orders[report[1].orders[1]].symbol = <<"m1">>
  /\ orders[report[1].orders[1]].status = "timeout"
  /\ orders[report[1].orders[2]].status = "filled"
  /\ orders[report[1].orders[3]].status = "filled"
  /\ positions[<<"m1">>].quantity = 0
  /\ positions[<<"m1", "yes">>].quantity = -orders[report[1].orders[2]].quantity
  /\ positions[<<"m1", "no">>].quantity = -orders[report[1].orders[3]].quantity
  /\ positions[<<"m1", "yes">>].quantity < 0

(***************************************************************************)
(* C37                                                                     *)
(***************************************************************************)
\* C37: a call skipped with edge_erased, no_size_available or risk_blocked
\* has stored the clock under the key of its opportunity, and an identical
\* opportunity that passes the circuit stages within the TTL of that claim is
\* skipped as duplicate; a call skipped at the circuit, stale_data or
\* hedge_circuit stage leaves the ledger as it was, and so does a call skipped
\* as duplicate.
C37_ClaimedBeforeProfitability ==
  [][\A opp \in Opportunities : \A size \in SizeArgs :
       Execute(opp, size) =>
         /\ (/\ ReturnsSkip
             /\ SkipReason \in {Some("edge_erased"), Some("no_size_available"),
                                Some("risk_blocked")}) =>
              recent' = [recent EXCEPT ![OpportunityKey(opp)] = Some(now)]
         /\ (/\ ReturnsSkip
             /\ \/ ~IsNone(halted)
                \/ SkipReason \in {Some("stale_data"), Some("hedge_circuit"),
                                   Some("duplicate")}) =>
              recent' = recent
         /\ (/\ orders = <<>>
             /\ PassesCircuits(opp)
             /\ ClaimedWithinTtl(opp)) =>
              /\ ReturnsSkip
              /\ SkipReason = Some("duplicate")]_vars

(***************************************************************************)
(* C38                                                                     *)
(***************************************************************************)
\* C38: a buy_set opportunity returned by ingest comes from a book in which
\* every outcome has an ask, and a sell_set opportunity from a book in which
\* every outcome has a bid; no buy_set is returned while no ask is known.
C38_CompleteBooksOnly ==
  (AfterBookIngest /\ ~IsNone(Returned)) =>
    LET os == book["m1"].outcomes
    IN  /\ Val(Returned).direction = "buy_set" =>
             /\ \A i \in 1..Len(os) : ~IsNone(os[i].ask)
             /\ RLt(RInt(0), AskSum(book["m1"]))
        /\ Val(Returned).direction = "sell_set" =>
             \A i \in 1..Len(os) : ~IsNone(os[i].bid)

(***************************************************************************)
(* C39                                                                     *)
(***************************************************************************)
\* filled quantity of the buy orders on the symbol minus that of its sell
\* orders, over the first n orders of OrderManager
RECURSIVE NetFilled(_, _)
NetFilled(symbol, n) ==
  IF n = 0 THEN 0
  ELSE NetFilled(symbol, n - 1)
         + (IF orders[n].symbol # symbol THEN 0
            ELSE IF orders[n].side = "buy" THEN orders[n].filled_quantity
                 ELSE -orders[n].filled_quantity)

\* C39: for every symbol the inventory entry equals the quantity of the
\* position, and that quantity equals the filled quantity of the buy orders on
\* the symbol (mints included, on the market-id symbol) minus the filled
\* quantity of its sell orders as OrderManager holds them; a leg that ends in
\* timeout or rejected, or unfilled, changes no position and no inventory.
C39_InventoryMatchesFills ==
  /\ [](\A s \in Symbols :
          /\ inventory[s] = positions[s].quantity
          /\ positions[s].quantity = NetFilled(s, Len(orders)))
  /\ [][(\A id \in 1..Len(orders) :
           orders'[id].filled_quantity = orders[id].filled_quantity) =>
          (positions' = positions /\ inventory' = inventory)]_vars

\* a set was minted and its yes leg sold while the sell of no timed out: the
\* set is held on the market-id symbol, yes is short, and the failed leg left
\* no trace in positions or inventory
C39_Witness ==
  /\ positions[<<"m1">>].quantity > 0
  /\ positions[<<"m1", "yes">>].quantity < 0
  /\ positions[<<"m1", "no">>].quantity = 0
  /\ inventory[<<"m1", "yes">>] < 0
  /\ \E i \in 1..Len(orders) :
       /\ orders[i].symbol = <<"m1", "no">>
       /\ orders[i].status = "timeout"

(***************************************************************************)
(* C40                                                                     *)
(***************************************************************************)
\* C40: a message that the feed delivered without detecting a gap makes the
\* app neither detect a gap nor start a REST recovery: the app's sequence
\* tracker agrees with the feed's, also on the first in-order live event after
\* a snapshot the feed substituted.
C40_AppAgreesWithFeed ==
  (~IsNone(frame) /\ ~IsNone(frame[1].out) /\ frame[1].gaps = <<>>) =>
    (app.gaps = <<>> /\ app.rest = 0)

====
